---- MODULE Spec2Model ----
(***************************************************************************)
(* State store and error notebook of eng-lang-tutor.                       *)
(*                                                                         *)
(*   scripts/core/error_notebook.py   ErrorNotebookManager                 *)
(*   scripts/core/state_manager.py    StateManager (load_state/save_state) *)
(*   scripts/utils.py                 deep_merge                           *)
(*   scripts/core/scorer.py           Scorer.evaluate_quiz                 *)
(*   scripts/gamification.py          GamificationManager.update_streak    *)
(*   scripts/cli/cli.py               main (the mutating commands)         *)
(*                                                                         *)
(* Strings that the code compares, slices or parses (the 'date' of an      *)
(* error entry, the month filter) are sequences of ASCII codes, so that    *)
(* sorting is Python's string order, startswith is a prefix test and       *)
(* strptime/isoformat are real conversions.  Days are proleptic Gregorian  *)
(* ordinals, as in datetime.date.                                          *)
(***************************************************************************)
EXTENDS Integers, Sequences, FiniteSets, TLC

VARIABLES
    error_notebook,   \* state['error_notebook']: the active entries, in list order
    error_archive,    \* state['error_archive']
    today,            \* date.today(), as an ordinal
    next_id,          \* identity of the next dict object handed to add_to_error_notebook
    call,             \* the last ErrorNotebookManager call and its arguments
    before_notebook,  \* error_notebook when that call was made
    before_archive,   \* error_archive when that call was made
    raised,           \* the exception that call raised to its caller, or "none"
    events,           \* the events appended to the log through append_event
    calls,            \* calls made so far, per operation
    query,            \* the arguments of the last get_errors_page call
    result,           \* what that call returned
    fs,               \* the files of the state directory, by path
    document,         \* the state dict held by the running invocation
    pc,               \* where the invocation is inside save_state, or "idle"
    saving,           \* the argument of the last save_state call
    prev_file,        \* the state file when that call was made
    store_last,       \* the last StateManager call that ended, and how
    store_raised,     \* the exception that call raised to its caller
    fault,            \* the I/O step of that call that failed, or "none"
    rt_doc,           \* the document as load_state returned it, while unmodified
    rt_saved,         \* rt_doc has been saved since, and nothing else was
    rt_prev,          \* at a load_state: the rt_doc that was saved before it
    store_calls,      \* StateManager calls made so far, per kind
    user,             \* state['user'] and progress['last_study_date'], as update_streak reads them
    history,          \* state['completion_status']['keypoint_view_history']
    op,               \* the last GamificationManager or view-tracking call, and its outcome
    cli,              \* the last command line run through main(), its outcome, the files
                      \* before it; partial: an earlier option had been applied in
                      \* memory (config), one of the two times was not given (schedule)
    daily,            \* the daily content files, by (date, content type)
    procs             \* the invocations running against the state directory: where each
                      \* is, the document it holds, how much of it it has written, and
                      \* the path that names the file it has open

store_vars == <<fs, document, pc, saving, prev_file, store_last, store_raised,
                fault, rt_doc, rt_saved, rt_prev, store_calls>>

notebook_vars == <<error_notebook, error_archive, today, next_id, call,
                   before_notebook, before_archive, raised, events, calls>>

vars == <<error_notebook, error_archive, today, next_id, call,
          before_notebook, before_archive, raised, events, calls,
          query, result,
          fs, document, pc, saving, prev_file, store_last, store_raised,
          fault, rt_doc, rt_saved, rt_prev, store_calls,
          user, history, op, cli, daily, procs>>

\* what one invocation holds while it loads and saves
invocation_vars == <<document, pc, saving, prev_file, store_last, store_raised,
                     fault, rt_doc, rt_saved, rt_prev, store_calls>>

\* what only the command line, the streak and the view history touch
session_vars == <<user, history, op, cli, daily, procs>>

\* what the calls on the notebook lists leave alone
outside_notebook == <<query, result, store_vars, session_vars>>

-----------------------------------------------------------------------------
(* Bounds of the exploration.                                              *)

\* add_to_error_notebook calls in one run
MaxAdds == 2
\* review_error calls in one run
MaxReviews == 2
\* archive_stale_errors calls in one run
MaxSweeps == 1
\* clear_reviewed_errors calls in one run
MaxClears == 1
\* times the calendar advances in one run
MaxTicks == 1
\* steps of one run
MaxCalls == 2
\* entries of a notebook that get_errors_page is asked about
MaxPageEntries == 4
\* load_state calls in one run
MaxLoads == 3
\* save_state calls in one run
MaxSaves == 2
\* updates of the loaded document in one run
MaxUpdates == 1
\* crashes and failed I/O steps in one run
MaxFaults == 1
\* tokens that the file buffer holds before it is written out
BufferTokens == 64
\* evaluate_quiz calls in one run
MaxGrades == 2
\* questions of one quiz
MaxQuestions == 60
\* update_streak calls in one run
MaxStudies == 2
\* streak freezes that a user holds
MaxFreeze == 2
\* record_keypoint_view and has_viewed_keypoint calls in one run
MaxViews == 3
\* command lines in one run
MaxCommands == 2
\* fields missing from a stored document
MaxDeleted == 2

-----------------------------------------------------------------------------
(* Python strings and dates.                                               *)

IsDigit(c) == c >= 48 /\ c <= 57

\* a < b in Python's str ordering (code point by code point, then by length)
RECURSIVE StrLessFrom(_, _, _)
StrLessFrom(a, b, i) ==
    IF i > Len(a) THEN i <= Len(b)
    ELSE IF i > Len(b) THEN FALSE
    ELSE IF a[i] # b[i] THEN a[i] < b[i]
    ELSE StrLessFrom(a, b, i + 1)

StrLess(a, b) == StrLessFrom(a, b, 1)

\* str.startswith
StartsWith(s, prefix) ==
    /\ Len(prefix) <= Len(s)
    /\ \A i \in 1..Len(prefix) : s[i] = prefix[i]

\* s[:n]
Prefix(s, n) == SubSeq(s, 1, IF n < Len(s) THEN n ELSE Len(s))

IsLeap(y) == (y % 4 = 0) /\ ((y % 100 # 0) \/ (y % 400 = 0))

DaysInMonth(y, m) ==
    IF m = 2 THEN (IF IsLeap(y) THEN 29 ELSE 28)
    ELSE IF m \in {4, 6, 9, 11} THEN 30 ELSE 31

RECURSIVE DaysBeforeMonth(_, _)
DaysBeforeMonth(y, m) ==
    IF m = 1 THEN 0 ELSE DaysBeforeMonth(y, m - 1) + DaysInMonth(y, m - 1)

DaysBeforeYear(y) ==
    (y - 1) * 365 + ((y - 1) \div 4) - ((y - 1) \div 100) + ((y - 1) \div 400)

\* date(y, m, d).toordinal()
ToOrdinal(y, m, d) == DaysBeforeYear(y) + DaysBeforeMonth(y, m) + d

\* date.fromordinal(n), as <<year, month, day>>
FromOrdinal(n) ==
    LET y == CHOOSE yy \in (n \div 366)..((n \div 365) + 1) :
                 DaysBeforeYear(yy) < n /\ n <= DaysBeforeYear(yy + 1)
        r == n - DaysBeforeYear(y)
        m == CHOOSE mm \in 1..12 :
                 DaysBeforeMonth(y, mm) < r
                 /\ r <= DaysBeforeMonth(y, mm) + DaysInMonth(y, mm)
    IN  <<y, m, r - DaysBeforeMonth(y, m)>>

\* date.isoformat(): "%04d-%02d-%02d"
IsoFormat(n) ==
    LET ymd == FromOrdinal(n)
        y == ymd[1]
        m == ymd[2]
        d == ymd[3]
    IN  << 48 + (y \div 1000), 48 + ((y \div 100) % 10),
           48 + ((y \div 10) % 10), 48 + (y % 10), 45,
           48 + (m \div 10), 48 + (m % 10), 45,
           48 + (d \div 10), 48 + (d % 10) >>

\* The value of a one- or two-character %m / %d field, 0 when the field
\* does not match ("1[0-2]|0[1-9]|[1-9]" and "3[01]|[12]\d|0[1-9]|[1-9]| [1-9]").
FieldValue(f, max, spaceOk) ==
    LET v == IF Len(f) = 1
             THEN (IF IsDigit(f[1]) THEN f[1] - 48 ELSE 0)
             ELSE IF IsDigit(f[1]) /\ IsDigit(f[2])
                  THEN (f[1] - 48) * 10 + (f[2] - 48)
             ELSE IF spaceOk /\ f[1] = 32 /\ IsDigit(f[2])
                  THEN f[2] - 48
             ELSE 0
    IN  IF v >= 1 /\ v <= max THEN v ELSE 0

\* datetime.strptime(s, '%Y-%m-%d').date() as an ordinal; 0 stands for the
\* ValueError raised when s does not match or names no calendar day.
StrpDate(s) ==
    IF Len(s) < 8 \/ Len(s) > 10 THEN 0
    ELSE IF ~(\A i \in 1..4 : IsDigit(s[i])) \/ s[5] # 45 THEN 0
    ELSE
        LET lm == IF s[7] = 45 THEN 1 ELSE 2
            ld == Len(s) - 6 - lm
        IN  IF ld < 1 \/ ld > 2 \/ s[6 + lm] # 45 THEN 0
            ELSE
                LET y == (s[1] - 48) * 1000 + (s[2] - 48) * 100
                         + (s[3] - 48) * 10 + (s[4] - 48)
                    m == FieldValue(SubSeq(s, 6, 5 + lm), 12, FALSE)
                    d == FieldValue(SubSeq(s, 7 + lm, Len(s)), 31, TRUE)
                IN  IF y < 1 \/ m = 0 \/ d = 0 THEN 0
                    ELSE IF d > DaysInMonth(y, m) THEN 0
                    ELSE ToOrdinal(y, m, d)

-----------------------------------------------------------------------------
(* Error entries.                                                          *)

MAX_ERROR_NOTEBOOK_SIZE == 100

\* a key that the dict does not hold
Missing == -1

\* error.get('wrong_count', 1)
GetWrongCount(e) == IF e.wrong_count = Missing THEN 1 ELSE e.wrong_count

\* x.get('date', ''): an entry without the key carries the empty string
GetDate(e) == e.date

\* the strict order of a sort by key, ascending or with reverse=True
KeyBefore(a, b, reverse) == IF reverse THEN StrLess(b, a) ELSE StrLess(a, b)

\* The number of elements of the sorted list 'sorted' that an element with
\* key 'key' goes behind: all those in sorted[1..lo] do, none behind hi does.
RECURSIVE InsertPos(_, _, _, _, _)
InsertPos(sorted, key, lo, hi, reverse) ==
    IF lo >= hi THEN lo
    ELSE
        LET mid == (lo + hi + 1) \div 2
        IN  IF KeyBefore(key, sorted[mid].date, reverse)
            THEN InsertPos(sorted, key, lo, mid - 1, reverse)
            ELSE InsertPos(sorted, key, mid, hi, reverse)

\* A stable sort by date: the elements s[lo..hi], in list order, go one by
\* one into the sorted list, each behind the elements whose key is not
\* greater.  (The range is split in halves to keep the evaluation shallow.)
RECURSIVE InsertRange(_, _, _, _, _)
InsertRange(sorted, s, lo, hi, reverse) ==
    IF lo > hi THEN sorted
    ELSE IF lo = hi
    THEN LET p == InsertPos(sorted, s[lo].date, 0, Len(sorted), reverse)
         IN  SubSeq(sorted, 1, p) \o <<s[lo]>>
                 \o SubSeq(sorted, p + 1, Len(sorted))
    ELSE LET mid == (lo + hi) \div 2
             left == InsertRange(sorted, s, lo, mid, reverse)
         IN  IF Len(left) >= Len(sorted)
             THEN InsertRange(left, s, mid + 1, hi, reverse)
             ELSE left

StableSort(s, reverse) == InsertRange(<<>>, s, 1, Len(s), reverse)

\* the sort of the eviction with the newest entry first
SortByDate_NewestFirst(s) == StableSort(s, TRUE)

\* list.sort(key=lambda x: x.get('date', ''))
SortByDate(s) == StableSort(s, FALSE)

\* the sort of get_errors_page without reverse=True
SortByDateDesc_Ascending(s) == StableSort(s, FALSE)

\* sorted(errors, key=lambda x: x.get('date', ''), reverse=True): stable,
\* so entries with equal keys keep their list order
SortByDateDesc(s) == StableSort(s, TRUE)

-----------------------------------------------------------------------------
(* ErrorNotebookManager.  A state is the pair of lists of the document;    *)
(* each operation takes it and returns it, as the methods do.              *)

\* add_to_error_notebook with the size test off by one
AddToErrorNotebook_LateCap(state, error, day) ==
    LET stamped == [error EXCEPT !.date = IsoFormat(day),
                                 !.reviewed = FALSE,
                                 !.wrong_count = GetWrongCount(error)]
        errors == Append(state.error_notebook, stamped)
    IN  IF Len(errors) > MAX_ERROR_NOTEBOOK_SIZE + 1
        THEN LET sorted == SortByDate(errors)
                 oldest == [Head(sorted) EXCEPT
                                !.archived_at = IsoFormat(day),
                                !.archived_reason = "notebook_full"]
             IN  [error_notebook |-> Tail(sorted),
                  error_archive  |-> Append(state.error_archive, oldest)]
        ELSE [error_notebook |-> errors,
              error_archive  |-> state.error_archive]

\* add_to_error_notebook that stamps with setdefault: what the caller
\* supplied for date and reviewed is kept
AddToErrorNotebook_KeepsSupplied(state, error, day) ==
    LET stamped == [error EXCEPT
                        !.date = IF error.date = <<>> THEN IsoFormat(day)
                                 ELSE error.date,
                        !.wrong_count = GetWrongCount(error)]
        errors == Append(state.error_notebook, stamped)
    IN  IF Len(errors) > MAX_ERROR_NOTEBOOK_SIZE
        THEN LET sorted == SortByDate(errors)
                 oldest == [Head(sorted) EXCEPT
                                !.archived_at = IsoFormat(day),
                                !.archived_reason = "notebook_full"]
             IN  [error_notebook |-> Tail(sorted),
                  error_archive  |-> Append(state.error_archive, oldest)]
        ELSE [error_notebook |-> errors,
              error_archive  |-> state.error_archive]

\* add_to_error_notebook(state, error), on a day whose ordinal is day
AddToErrorNotebook(state, error, day) ==
    LET stamped == [error EXCEPT !.date = IsoFormat(day),
                                 !.reviewed = FALSE,
                                 !.wrong_count = GetWrongCount(error)]
        errors == Append(state.error_notebook, stamped)
    IN  IF Len(errors) > MAX_ERROR_NOTEBOOK_SIZE
        THEN LET sorted == SortByDate(errors)
                 oldest == [Head(sorted) EXCEPT
                                !.archived_at = IsoFormat(day),
                                !.archived_reason = "notebook_full"]
             IN  [error_notebook |-> Tail(sorted),
                  error_archive  |-> Append(state.error_archive, oldest)]
        ELSE [error_notebook |-> errors,
              error_archive  |-> state.error_archive]

\* review_error where a wrong answer also takes the reviewed flag back
ReviewError_ResetsReviewed(state, error_index, correct) ==
    LET errors == state.error_notebook
    IN  IF 0 <= error_index /\ error_index < Len(errors)
        THEN [state EXCEPT !.error_notebook =
                 IF correct
                 THEN [errors EXCEPT ![error_index + 1].reviewed = TRUE]
                 ELSE [errors EXCEPT
                           ![error_index + 1].wrong_count =
                               GetWrongCount(errors[error_index + 1]) + 1,
                           ![error_index + 1].reviewed = FALSE]]
        ELSE state

\* review_error without the test 0 <= error_index: a negative index then
\* counts from the end of the list, as Python's indexing does
ReviewError_NoLowerBound(state, error_index, correct) ==
    LET errors == state.error_notebook
        at == IF error_index < 0 THEN Len(errors) + error_index + 1
              ELSE error_index + 1
    IN  IF error_index < Len(errors) /\ at >= 1
        THEN [state EXCEPT !.error_notebook =
                 IF correct
                 THEN [errors EXCEPT ![at].reviewed = TRUE]
                 ELSE [errors EXCEPT ![at].wrong_count =
                           GetWrongCount(errors[at]) + 1]]
        ELSE state

\* review_error(state, error_index, correct)
ReviewError(state, error_index, correct) ==
    LET errors == state.error_notebook
    IN  IF 0 <= error_index /\ error_index < Len(errors)
        THEN [state EXCEPT !.error_notebook =
                 IF correct
                 THEN [errors EXCEPT ![error_index + 1].reviewed = TRUE]
                 ELSE [errors EXCEPT ![error_index + 1].wrong_count =
                           GetWrongCount(errors[error_index + 1]) + 1]]
        ELSE state

\* days_old of archive_stale_errors: 0 when strptime raises ValueError
DaysOld(e, day) ==
    LET error_date == StrpDate(GetDate(e))
    IN  IF error_date = 0 THEN 0 ELSE day - error_date

\* the test of the sweep without the skip of reviewed entries
Stale_IgnoresReviewed(e, day) ==
    GetWrongCount(e) >= 3 /\ DaysOld(e, day) >= 30

\* the test of the loop of archive_stale_errors: reviewed entries are
\* skipped, the others go to the archive when both thresholds are met
Stale(e, day) ==
    /\ ~e.reviewed
    /\ GetWrongCount(e) >= 3 /\ DaysOld(e, day) >= 30

\* archive_stale_errors that starts from an empty archive list
ArchiveStaleErrors_FreshArchive(state, day) ==
    LET errors == state.error_notebook
        moved == SelectSeq(errors, LAMBDA e : Stale(e, day))
    IN  [error_notebook |-> SelectSeq(errors, LAMBDA e : ~Stale(e, day)),
         error_archive  |->
             [i \in 1..Len(moved) |->
                 [moved[i] EXCEPT !.archived_at = IsoFormat(day)]],
         archived_count |-> Len(moved)]

\* archive_stale_errors that appends the stale entries to the archive and
\* leaves them in the active list as well
ArchiveStaleErrors_KeepsActive(state, day) ==
    LET errors == state.error_notebook
        moved == SelectSeq(errors, LAMBDA e : Stale(e, day))
    IN  [error_notebook |-> errors,
         error_archive  |-> state.error_archive \o
             [i \in 1..Len(moved) |->
                 [moved[i] EXCEPT !.archived_at = IsoFormat(day)]],
         archived_count |-> Len(moved)]

\* archive_stale_errors(state): the loop appends each entry, in list order,
\* either to 'remaining' or, stamped, to 'archive', and counts the latter
ArchiveStaleErrors(state, day) ==
    LET errors == state.error_notebook
        moved == SelectSeq(errors, LAMBDA e : Stale(e, day))
    IN  [error_notebook |-> SelectSeq(errors, LAMBDA e : ~Stale(e, day)),
         error_archive  |-> state.error_archive \o
             [i \in 1..Len(moved) |->
                 [moved[i] EXCEPT !.archived_at = IsoFormat(day)]],
         archived_count |-> Len(moved)]

\* clear_reviewed_errors with the test of the comprehension inverted
ClearReviewedErrors_KeepsReviewed(state) ==
    [state EXCEPT !.error_notebook =
        SelectSeq(state.error_notebook, LAMBDA e : e.reviewed)]

\* clear_reviewed_errors(state)
ClearReviewedErrors(state) ==
    [state EXCEPT !.error_notebook =
        SelectSeq(state.error_notebook, LAMBDA e : ~e.reviewed)]

\* errors[start:end] for a list and two integers, as Python slices
PySlice(list, start, end) ==
    LET n == Len(list)
        clip(k) == IF k < 0 THEN (IF n + k < 0 THEN 0 ELSE n + k)
                   ELSE IF k > n THEN n ELSE k
    IN  SubSeq(list, clip(start) + 1, clip(end))

\* The list that get_errors_page pages through: the entries sorted by date,
\* newest first, then only those whose date starts with the month when a
\* month is given (None and '' are both false).
FilteredErrors(state, month) ==
    LET errors == SortByDateDesc(state.error_notebook)
    IN  IF month # <<>>
        THEN SelectSeq(errors, LAMBDA e : StartsWith(GetDate(e), month))
        ELSE errors

\* k draws with replacement: what random.choices(errors, k=k) can return
Samples_WithReplacement(errors, k) ==
    { [i \in 1..k |-> errors[f[i]]] : f \in [1..k -> DOMAIN errors] }

\* the lists that random.sample(errors, k) can return
Samples(errors, k) ==
    { [i \in 1..k |-> errors[f[i]]] :
        f \in {g \in [1..k -> DOMAIN errors] :
                  \A i, j \in 1..k : i # j => g[i] # g[j]} }

\* get_errors_page that takes the requested page as it is
GetErrorsPage_Unclamped(state, page, per_page, month, random, selected) ==
    LET errors == FilteredErrors(state, month)
        total == Len(errors)
    IN  IF random > 0
        THEN LET random_count == IF random < total THEN random ELSE total
             IN  [total |-> total, page |-> 1, per_page |-> random_count,
                  total_pages |-> 1, has_more |-> total > random_count,
                  mode |-> "random",
                  errors |-> IF total > 0 THEN selected ELSE <<>>]
        ELSE LET total_pages == IF per_page > 0
                                THEN (total + per_page - 1) \div per_page
                                ELSE 1
                 least == IF page < total_pages THEN page ELSE total_pages
                 clamped == page
                 start == (clamped - 1) * per_page
                 end == start + per_page
             IN  [total |-> total, page |-> clamped, per_page |-> per_page,
                  total_pages |-> total_pages,
                  has_more |-> clamped < total_pages,
                  has_prev |-> clamped > 1,
                  mode |-> "paginated",
                  errors |-> PySlice(errors, start, end)]

\* get_errors_page(state, page, per_page, month, random); random = 0 stands
\* for None, and selected is what random.sample returned in random mode
GetErrorsPage(state, page, per_page, month, random, selected) ==
    LET errors == FilteredErrors(state, month)
        total == Len(errors)
    IN  IF random > 0
        THEN LET random_count == IF random < total THEN random ELSE total
             IN  [total |-> total, page |-> 1, per_page |-> random_count,
                  total_pages |-> 1, has_more |-> total > random_count,
                  mode |-> "random",
                  errors |-> IF total > 0 THEN selected ELSE <<>>]
        ELSE LET total_pages == IF per_page > 0
                                THEN (total + per_page - 1) \div per_page
                                ELSE 1
                 least == IF page < total_pages THEN page ELSE total_pages
                 clamped == IF total_pages > 0
                            THEN (IF least > 1 THEN least ELSE 1)
                            ELSE 1
                 start == (clamped - 1) * per_page
                 end == start + per_page
             IN  [total |-> total, page |-> clamped, per_page |-> per_page,
                  total_pages |-> total_pages,
                  has_more |-> clamped < total_pages,
                  has_prev |-> clamped > 1,
                  mode |-> "paginated",
                  errors |-> PySlice(errors, start, end)]

\* sorted(by_month.items()) without reverse=True: the months, smallest first
SortMonthsDesc_Ascending(months) ==
    LET RECURSIVE up(_)
        up(rest) ==
            IF rest = {} THEN <<>>
            ELSE LET low == CHOOSE m \in rest :
                                \A o \in rest \ {m} : StrLess(m, o)
                 IN  <<low>> \o up(rest \ {low})
    IN  up(months)

\* sorted(by_month.items(), reverse=True): the months, largest first
RECURSIVE SortMonthsDesc(_)
SortMonthsDesc(months) ==
    IF months = {} THEN <<>>
    ELSE LET top == CHOOSE m \in months :
                        \A o \in months \ {m} : StrLess(o, m)
         IN  <<top>> \o SortMonthsDesc(months \ {top})

\* get_error_stats(state); by_month is the dict in its order, one record for
\* each item, and mode tells the result from that of get_errors_page
GetErrorStats(state) ==
    LET errors == state.error_notebook
        dated == {i \in DOMAIN errors : GetDate(errors[i]) # <<>>}
        month(i) == Prefix(GetDate(errors[i]), 7)
        months == SortMonthsDesc({month(i) : i \in dated})
        reviewed == Cardinality({i \in DOMAIN errors : errors[i].reviewed})
    IN  IF errors = <<>>
        THEN [mode |-> "stats", total |-> 0, reviewed |-> 0, unreviewed |-> 0,
              by_month |-> <<>>]
        ELSE [mode |-> "stats", total |-> Len(errors), reviewed |-> reviewed,
              unreviewed |-> Len(errors) - reviewed,
              by_month |->
                  [k \in DOMAIN months |->
                      [month |-> months[k],
                       count |-> Cardinality({i \in dated :
                                                 month(i) = months[k]})]]]

-----------------------------------------------------------------------------
(* JSON documents and their text.  A value is an object (a function from   *)
(* keys to values), an array or an atom carrying its literal; a text is    *)
(* the sequence of tokens that json.dump writes and json.load reads.       *)

Obj(members) == [k |-> "obj", o |-> members]

Arr(elements) == [k |-> "arr", a |-> elements]

Str(s) == [k |-> "str", s |-> s]

Num(s) == [k |-> "num", s |-> s]

Bool(s) == [k |-> "bool", s |-> s]

Null == [k |-> "null", s |-> "null"]

IsDict(v) == v.k = "obj"

Tok(t, s) == [t |-> t, s |-> s]

Punct(t) == Tok(t, "")

\* The keys in the order in which a dump lists the members of an object.
KeyOrder ==
    << "version", "initialized", "onboarding_step", "completion_status",
       "quiz_completed_date", "keypoint_view_history", "schedule",
       "keypoint_time", "quiz_time", "timezone", "user", "xp", "level",
       "streak", "streak_freeze", "gems", "badges", "preferences",
       "cefr_level", "oral_written_ratio", "topics", "movies", "news",
       "gaming", "sports", "workplace", "social", "daily_life", "travel",
       "tutor_style", "dedup_days", "progress", "total_quizzes",
       "correct_rate", "last_study_date", "perfect_quizzes",
       "expressions_learned", "recent_topics", "error_notebook",
       "error_archive", "total_points", "date", "question", "reviewed",
       "viewed_at" >>

KeysOf(v) == SelectSeq(KeyOrder, LAMBDA key : key \in DOMAIN v.o)

\* json.dump(state, f): the tokens of the text
RECURSIVE DumpJson(_)
RECURSIVE DumpMembers(_, _, _)
RECURSIVE DumpElements(_, _)
DumpJson(v) ==
    IF v.k = "obj"
    THEN <<Punct("{")>> \o DumpMembers(v, KeysOf(v), 1) \o <<Punct("}")>>
    ELSE IF v.k = "arr"
    THEN <<Punct("[")>> \o DumpElements(v.a, 1) \o <<Punct("]")>>
    ELSE <<Tok(v.k, v.s)>>

DumpMembers(v, keys, i) ==
    IF i > Len(keys) THEN <<>>
    ELSE (IF i > 1 THEN <<Punct(",")>> ELSE <<>>)
         \o <<Tok("str", keys[i]), Punct(":")>> \o DumpJson(v.o[keys[i]])
         \o DumpMembers(v, keys, i + 1)

DumpElements(a, i) ==
    IF i > Len(a) THEN <<>>
    ELSE (IF i > 1 THEN <<Punct(",")>> ELSE <<>>)
         \o DumpJson(a[i]) \o DumpElements(a, i + 1)

ParseFailure == [ok |-> FALSE, val |-> Null, next |-> 0]

Parsed(v, next) == [ok |-> TRUE, val |-> v, next |-> next]

IsTok(text, i, t) == i <= Len(text) /\ text[i].t = t

NoMembers == [key \in {} |-> Null]

WithMember(members, key, v) ==
    [x \in DOMAIN members \cup {key} |-> IF x = key THEN v ELSE members[x]]

\* The value that starts at token i of the text, and the token behind it.
RECURSIVE ParseValue(_, _)
RECURSIVE ParseMembers(_, _, _)
RECURSIVE ParseElements(_, _, _)
ParseValue(text, i) ==
    IF i > Len(text) THEN ParseFailure
    ELSE IF text[i].t = "{"
    THEN (IF IsTok(text, i + 1, "}") THEN Parsed(Obj(NoMembers), i + 2)
          ELSE ParseMembers(text, i + 1, NoMembers))
    ELSE IF text[i].t = "["
    THEN (IF IsTok(text, i + 1, "]") THEN Parsed(Arr(<<>>), i + 2)
          ELSE ParseElements(text, i + 1, <<>>))
    ELSE IF text[i].t \in {"str", "num", "bool", "null"}
    THEN Parsed([k |-> text[i].t, s |-> text[i].s], i + 1)
    ELSE ParseFailure

ParseMembers(text, i, members) ==
    IF ~(IsTok(text, i, "str") /\ IsTok(text, i + 1, ":")) THEN ParseFailure
    ELSE
        LET value == ParseValue(text, i + 2)
        IN  IF ~value.ok THEN ParseFailure
            ELSE IF IsTok(text, value.next, ",")
            THEN ParseMembers(text, value.next + 1,
                              WithMember(members, text[i].s, value.val))
            ELSE IF IsTok(text, value.next, "}")
            THEN Parsed(Obj(WithMember(members, text[i].s, value.val)),
                        value.next + 1)
            ELSE ParseFailure

ParseElements(text, i, elements) ==
    LET value == ParseValue(text, i)
    IN  IF ~value.ok THEN ParseFailure
        ELSE IF IsTok(text, value.next, ",")
        THEN ParseElements(text, value.next + 1, Append(elements, value.val))
        ELSE IF IsTok(text, value.next, "]")
        THEN Parsed(Arr(Append(elements, value.val)), value.next + 1)
        ELSE ParseFailure

\* json.load(f): one value and nothing behind it, or a JSONDecodeError
ParseJson(text) ==
    LET value == ParseValue(text, 1)
    IN  IF value.ok /\ value.next = Len(text) + 1 THEN value ELSE ParseFailure

\* StateManager._default_state
DefaultState ==
    Obj([key \in {"version", "initialized", "onboarding_step",
                  "completion_status", "schedule", "user", "preferences",
                  "progress", "recent_topics", "error_notebook",
                  "error_archive"} |->
        CASE key = "version" -> Num("2")
          [] key = "initialized" -> Bool("false")
          [] key = "onboarding_step" -> Num("0")
          [] key = "completion_status" ->
                Obj([x \in {"quiz_completed_date", "keypoint_view_history"} |->
                    IF x = "quiz_completed_date" THEN Null ELSE Arr(<<>>)])
          [] key = "schedule" ->
                Obj([x \in {"keypoint_time", "quiz_time", "timezone"} |->
                    CASE x = "keypoint_time" -> Str("06:45")
                      [] x = "quiz_time" -> Str("22:45")
                      [] x = "timezone" -> Str("Asia/Shanghai")])
          [] key = "user" ->
                Obj([x \in {"xp", "level", "streak", "streak_freeze", "gems",
                            "badges"} |->
                    CASE x = "level" -> Num("1")
                      [] x = "badges" -> Arr(<<>>)
                      [] OTHER -> Num("0")])
          [] key = "preferences" ->
                Obj([x \in {"cefr_level", "oral_written_ratio", "topics",
                            "tutor_style", "dedup_days"} |->
                    CASE x = "cefr_level" -> Str("B1")
                      [] x = "oral_written_ratio" -> Num("0.7")
                      [] x = "topics" ->
                            Obj([t \in {"movies", "news", "gaming", "sports",
                                        "workplace", "social", "daily_life"} |->
                                CASE t \in {"movies", "workplace"} -> Num("0.2")
                                  [] t \in {"news", "gaming"} -> Num("0.15")
                                  [] OTHER -> Num("0.1")])
                      [] x = "tutor_style" -> Str("humorous")
                      [] x = "dedup_days" -> Num("14")])
          [] key = "progress" ->
                Obj([x \in {"total_quizzes", "correct_rate", "last_study_date",
                            "perfect_quizzes", "expressions_learned"} |->
                    CASE x = "correct_rate" -> Num("0.0")
                      [] x = "last_study_date" -> Null
                      [] OTHER -> Num("0")])
          [] OTHER -> Arr(<<>>)])

\* deep_merge(base, override) that does not descend: dict.update
DeepMerge_Shallow(base, override) ==
    Obj([key \in DOMAIN base.o \cup DOMAIN override.o |->
        IF key \in DOMAIN override.o THEN override.o[key] ELSE base.o[key]])

\* deep_merge(base, override) for two dicts
RECURSIVE DeepMerge(_, _)
DeepMerge(base, override) ==
    Obj([key \in DOMAIN base.o \cup DOMAIN override.o |->
        IF key \in DOMAIN override.o
        THEN IF key \in DOMAIN base.o /\ IsDict(base.o[key])
                                      /\ IsDict(override.o[key])
             THEN DeepMerge(base.o[key], override.o[key])
             ELSE override.o[key]
        ELSE base.o[key]])

\* _merge_with_defaults(state)
MergeWithDefaults(state) == DeepMerge(DefaultState, state)

NoDoc == [k |-> "none"]

NoFile == [exists |-> FALSE, text |-> <<>>]

File(text) == [exists |-> TRUE, text |-> text]

\* load_state on a state file: the document returned, or the exception that
\* reaches the caller.  readable = FALSE: open() or read() raises an IOError.
\* A text that is not UTF-8 makes the read raise UnicodeDecodeError, and a
\* JSON value without .items() makes deep_merge raise AttributeError;
\* neither is a JSONDecodeError or an IOError.
LoadState(file, readable) ==
    IF ~file.exists THEN [raised |-> "none", document |-> DefaultState]
    ELSE IF ~readable THEN [raised |-> "none", document |-> DefaultState]
    ELSE IF \E i \in DOMAIN file.text : file.text[i].t = "byte"
    THEN [raised |-> "UnicodeDecodeError", document |-> NoDoc]
    ELSE
        LET state == ParseJson(file.text)
        IN  IF ~state.ok THEN [raised |-> "none", document |-> DefaultState]
            ELSE IF ~IsDict(state.val)
            THEN [raised |-> "AttributeError", document |-> NoDoc]
            ELSE [raised |-> "none",
                  document |-> MergeWithDefaults(state.val)]

\* update_preferences(state, cefr_level=..., tutor_style=...,
\* oral_written_ratio=..., topics=...); "" and NoDoc stand for arguments
\* left at None, and oral_written_ratio is the literal of the float
UpdatePreferences(state, cefr_level, tutor_style, oral_written_ratio, topics) ==
    LET s0 == IF "preferences" \in DOMAIN state.o THEN state
              ELSE Obj(WithMember(state.o, "preferences", Obj(NoMembers)))
        p0 == s0.o["preferences"].o
        p1 == IF cefr_level # "" THEN WithMember(p0, "cefr_level", Str(cefr_level))
              ELSE p0
        p2 == IF tutor_style # ""
              THEN WithMember(p1, "tutor_style", Str(tutor_style)) ELSE p1
        p3 == IF oral_written_ratio # ""
              THEN WithMember(p2, "oral_written_ratio", Num(oral_written_ratio))
              ELSE p2
        p4 == IF topics # NoDoc /\ DOMAIN topics.o # {}
              THEN WithMember(p3, "topics", topics) ELSE p3
    IN  Obj(WithMember(s0.o, "preferences", Obj(p4)))

\* update_onboarding_step(state, step)
UpdateOnboardingStep(state, step) ==
    LET clamped == IF step < 0 THEN 0 ELSE IF step > 6 THEN 6 ELSE step
        digits == <<"0", "1", "2", "3", "4", "5", "6">>
        s1 == WithMember(state.o, "onboarding_step", Num(digits[clamped + 1]))
    IN  Obj(IF step >= 6 THEN WithMember(s1, "initialized", Bool("true"))
            ELSE s1)

-----------------------------------------------------------------------------
(* StateManager.save_state and load_state on the files of the directory.   *)

StateFile == "state.json"

\* state_file.with_suffix('.tmp') that keeps the path as it is
WithSuffixTmp_SamePath(path) == path

\* state_file.with_suffix('.tmp')
WithSuffixTmp(path) == IF path = "state.json" THEN "state.tmp" ELSE path

TempFile == WithSuffixTmp(StateFile)

Paths == {"state.json", "state.tmp"}

\* What the except branch of save_state leaves of the files: the temporary
\* file is unlinked when it exists.  (Mutant: the branch only re-raises.)
Cleanup_KeepsTemp(files) == files

Cleanup(files) ==
    IF files[TempFile].exists THEN [files EXCEPT ![TempFile] = NoFile]
    ELSE files

\* What the temporary file holds once the with block has closed it: the
\* whole text, of which 'flushed' tokens were on disk before.  (Mutant: the
\* rename happens before the buffer is written out.)
Closed_Unflushed(text, flushed) == SubSeq(text, 1, flushed)

Closed(text, flushed) == text

\* temp_file.rename(self.state_file)
Rename(files) ==
    IF TempFile = StateFile THEN files
    ELSE [files EXCEPT ![StateFile] = files[TempFile], ![TempFile] = NoFile]

NoStoreCalls == [load |-> 0, save |-> 0, update |-> 0, fault |-> 0]

\* no state directory is in play
NoStore ==
    /\ fs = [path \in Paths |-> NoFile]
    /\ document = NoDoc
    /\ pc = "idle"
    /\ saving = NoDoc
    /\ prev_file = NoFile
    /\ store_last = "none"
    /\ store_raised = "none"
    /\ fault = "none"
    /\ rt_doc = NoDoc
    /\ rt_saved = FALSE
    /\ rt_prev = NoDoc
    /\ store_calls = NoStoreCalls

\* no command line has run, nothing was studied or viewed
NoSession ==
    /\ user = [streak |-> 0, streak_freeze |-> 0, last_study_date |-> <<>>,
               last_freeze_used |-> <<>>]
    /\ history = <<>>
    /\ op = [name |-> "none"]
    /\ cli = [command |-> "none"]
    /\ daily = {}
    /\ procs = <<>>

\* state = sm.load_state()
Load ==
    /\ pc = "idle"
    /\ store_calls.load < MaxLoads
    /\ \E readable \in BOOLEAN :
          LET out == LoadState(fs[StateFile], readable)
          IN  /\ ~readable => (fs[StateFile].exists
                               /\ store_calls.fault < MaxFaults)
              /\ document' = out.document
              /\ store_raised' = out.raised
              /\ rt_doc' = out.document
              /\ fault' = IF readable THEN "none" ELSE "read"
              /\ store_calls' = [store_calls EXCEPT
                                    !.load = @ + 1,
                                    !.fault = IF readable THEN @ ELSE @ + 1]
    /\ rt_prev' = IF rt_saved THEN rt_doc ELSE NoDoc
    /\ rt_saved' = FALSE
    /\ store_last' = "load_state"
    /\ UNCHANGED <<fs, pc, saving, prev_file>>
    /\ UNCHANGED <<notebook_vars, query, result, session_vars>>

\* the topic weights that a caller passes to update_preferences
NewTopics ==
    Obj([t \in {"travel", "news"} |-> IF t = "travel" THEN Num("0.6") ELSE Num("0.4")])

\* the invocation changes the document it loaded
Update ==
    /\ pc = "idle"
    /\ document # NoDoc
    /\ store_calls.update < MaxUpdates
    /\ \/ document' = UpdatePreferences(document, "C1", "", "", NoDoc)
       \/ document' = UpdatePreferences(document, "", "", "", NewTopics)
       \/ document' = UpdateOnboardingStep(document, 6)
    /\ store_last' = "update"
    /\ store_raised' = "none"
    /\ fault' = "none"
    /\ rt_doc' = NoDoc
    /\ rt_saved' = FALSE
    /\ rt_prev' = NoDoc
    /\ store_calls' = [store_calls EXCEPT !.update = @ + 1]
    /\ UNCHANGED <<fs, pc, saving, prev_file>>
    /\ UNCHANGED <<notebook_vars, query, result, session_vars>>

\* sm.save_state(state) is called: _ensure_directories, temp_file is named
SaveBegin ==
    /\ pc = "idle"
    /\ document # NoDoc
    /\ store_calls.save < MaxSaves
    /\ pc' = "open"
    /\ saving' = document
    /\ prev_file' = fs[StateFile]
    /\ store_last' = "save_state called"
    /\ store_raised' = "none"
    /\ fault' = "none"
    /\ rt_prev' = NoDoc
    /\ store_calls' = [store_calls EXCEPT !.save = @ + 1]
    /\ UNCHANGED <<fs, document, rt_doc, rt_saved>>
    /\ UNCHANGED <<notebook_vars, query, result, session_vars>>

\* open(temp_file, 'w') creates or truncates the file
SaveOpen ==
    /\ pc = "open"
    /\ fs' = [fs EXCEPT ![TempFile] = File(<<>>)]
    /\ pc' = "write"
    /\ UNCHANGED <<document, saving, prev_file, store_last, store_raised,
                   fault, rt_doc, rt_saved, rt_prev, store_calls>>
    /\ UNCHANGED <<notebook_vars, query, result, session_vars>>

\* json.dump fills the buffer, and a full buffer is written out
SaveWrite ==
    /\ pc = "write"
    /\ LET text == DumpJson(saving)
           flushed == Len(fs[TempFile].text)
       IN  /\ Len(text) - flushed >= BufferTokens
           /\ fs' = [fs EXCEPT ![TempFile] =
                        File(SubSeq(text, 1, flushed + BufferTokens))]
    /\ UNCHANGED <<document, pc, saving, prev_file, store_last, store_raised,
                   fault, rt_doc, rt_saved, rt_prev, store_calls>>
    /\ UNCHANGED <<notebook_vars, query, result, session_vars>>

\* json.dump returns and the with block closes the file
SaveClose ==
    /\ pc = "write"
    /\ LET text == DumpJson(saving)
           flushed == Len(fs[TempFile].text)
       IN  /\ Len(text) - flushed < BufferTokens
           /\ fs' = [fs EXCEPT ![TempFile] = File(Closed(text, flushed))]
    /\ pc' = "rename"
    /\ UNCHANGED <<document, saving, prev_file, store_last, store_raised,
                   fault, rt_doc, rt_saved, rt_prev, store_calls>>
    /\ UNCHANGED <<notebook_vars, query, result, session_vars>>

\* temp_file.rename(self.state_file), and save_state returns
SaveRename ==
    /\ pc = "rename"
    /\ fs' = Rename(fs)
    /\ pc' = "idle"
    /\ store_last' = "save_state"
    /\ store_raised' = "none"
    /\ rt_saved' = (rt_doc # NoDoc /\ saving = rt_doc)
    /\ UNCHANGED <<document, saving, prev_file, fault, rt_doc, rt_prev,
                   store_calls>>
    /\ UNCHANGED <<notebook_vars, query, result, session_vars>>

\* The step that save_state is about to take (open, a write or the close,
\* the rename) raises an IOError: the except branch prints, removes the
\* temporary file and re-raises.
SaveIOError ==
    /\ pc \in {"open", "write", "rename"}
    /\ store_calls.fault < MaxFaults
    /\ fs' = Cleanup(fs)
    /\ pc' = "idle"
    /\ store_last' = "save_state"
    /\ store_raised' = "IOError"
    /\ fault' = pc
    /\ rt_saved' = FALSE
    /\ store_calls' = [store_calls EXCEPT !.fault = @ + 1]
    /\ UNCHANGED <<document, saving, prev_file, rt_doc, rt_prev>>
    /\ UNCHANGED <<notebook_vars, query, result, session_vars>>

\* the process dies inside save_state; the next invocation starts afresh
Crash ==
    /\ pc \in {"open", "write", "rename"}
    /\ store_calls.fault < MaxFaults
    /\ pc' = "idle"
    /\ document' = NoDoc
    /\ store_last' = "crash"
    /\ store_raised' = "none"
    /\ fault' = pc
    /\ rt_doc' = NoDoc
    /\ rt_saved' = FALSE
    /\ store_calls' = [store_calls EXCEPT !.fault = @ + 1]
    /\ UNCHANGED <<fs, saving, prev_file, rt_prev>>
    /\ UNCHANGED <<notebook_vars, query, result, session_vars>>

-----------------------------------------------------------------------------
(* The notebook over a run of calls.                                       *)

\* An entry: the dict object id with the keys the manager reads and writes.
\* archived_at = "" and archived_reason = "" stand for absent keys.
Entry(id, date, reviewed, wrong_count) ==
    [id |-> id, date |-> date, reviewed |-> reviewed,
     wrong_count |-> wrong_count,
     archived_at |-> <<>>, archived_reason |-> ""]

StartDay == ToOrdinal(2026, 3, 1)

\* "2026-02-30": matches the format, names no day
NoSuchDay == <<50, 48, 50, 54, 45, 48, 50, 45, 51, 48>>

\* "2026-1-5": accepted by strptime, not what isoformat writes
Unpadded == <<50, 48, 50, 54, 45, 49, 45, 53>>

\* "2020-01-01"
Supplied == <<50, 48, 50, 48, 45, 48, 49, 45, 48, 49>>

Layouts == {"ascending", "descending", "mixed"}

InitDate(i, layout) ==
    IF layout = "ascending" THEN IsoFormat(StartDay - 101 + i)
    ELSE IF layout = "descending" THEN IsoFormat(StartDay - i)
    ELSE IF i % 10 = 4 THEN NoSuchDay
    ELSE IF i % 10 = 7 THEN <<>>
    ELSE IF i % 10 = 2 THEN Unpadded
    ELSE IsoFormat(StartDay - ((i * 7) % 45))

InitEntry(i, layout) ==
    Entry(i, InitDate(i, layout), i % 3 = 0,
          IF i % 5 = 0 THEN Missing ELSE i % 5)

InitNotebook(n, layout) == [i \in 1..n |-> InitEntry(i, layout)]

\* a document that an earlier run left with one archived entry
InitArchive(layout) ==
    IF layout = "mixed"
    THEN << [Entry(0, IsoFormat(StartDay - 60), FALSE, 3) EXCEPT
                 !.archived_at = IsoFormat(StartDay - 20)] >>
    ELSE <<>>

InitSizes == {0, 5, MAX_ERROR_NOTEBOOK_SIZE}

\* the dicts a caller hands to add_to_error_notebook
NewErrors(id) ==
    { Entry(id, <<>>, FALSE, Missing),
      Entry(id, Supplied, TRUE, Missing),
      Entry(id, <<>>, FALSE, 3) }

NoError == Entry(0, <<>>, FALSE, Missing)

IndexInputs(n) == {-1, 0, n - 1, n}

TickDays == {30}

State == [error_notebook |-> error_notebook, error_archive |-> error_archive]

NoQuery == [page |-> 0, per_page |-> 0, month |-> <<>>, random |-> 0]

NoResult == [mode |-> "none"]

NoCalls == [add |-> 0, review |-> 0, sweep |-> 0, clear |-> 0, tick |-> 0,
            grade |-> 0]

Budget ==
    calls.add + calls.review + calls.sweep + calls.clear + calls.tick < MaxCalls

Init ==
    /\ \E n \in InitSizes, layout \in Layouts :
          /\ error_notebook = InitNotebook(n, layout)
          /\ error_archive = InitArchive(layout)
    /\ today = StartDay
    /\ next_id = MAX_ERROR_NOTEBOOK_SIZE + 1
    /\ call = [op |-> "none", index |-> 0, correct |-> FALSE, error |-> NoError]
    /\ before_notebook = error_notebook
    /\ before_archive = error_archive
    /\ raised = "none"
    /\ events = <<>>
    /\ calls = NoCalls
    /\ query = NoQuery
    /\ result = NoResult
    /\ NoStore
    /\ NoSession

Remember ==
    /\ before_notebook' = error_notebook
    /\ before_archive' = error_archive
    /\ UNCHANGED outside_notebook

Add ==
    /\ Budget /\ calls.add < MaxAdds
    /\ \E error \in NewErrors(next_id) :
          LET new == AddToErrorNotebook(State, error, today)
          IN  /\ error_notebook' = new.error_notebook
              /\ error_archive' = new.error_archive
              /\ call' = [op |-> "add_to_error_notebook", index |-> 0,
                          correct |-> FALSE, error |-> error]
    /\ next_id' = next_id + 1
    /\ Remember
    /\ raised' = "none"
    /\ calls' = [calls EXCEPT !.add = @ + 1]
    /\ UNCHANGED <<today, events>>

Review ==
    /\ Budget /\ calls.review < MaxReviews
    /\ \E error_index \in IndexInputs(Len(error_notebook)), correct \in BOOLEAN :
          LET new == ReviewError(State, error_index, correct)
          IN  /\ error_notebook' = new.error_notebook
              /\ error_archive' = new.error_archive
              /\ call' = [op |-> "review_error", index |-> error_index,
                          correct |-> correct, error |-> NoError]
    /\ Remember
    /\ raised' = "none"
    /\ calls' = [calls EXCEPT !.review = @ + 1]
    /\ UNCHANGED <<today, next_id, events>>

\* archive_stale_errors; the manager was built by StateManager, so
\* self.state_manager is set, and append_event re-raises an IOError.
Sweep ==
    /\ Budget /\ calls.sweep < MaxSweeps
    /\ LET new == ArchiveStaleErrors(State, today)
       IN  /\ error_notebook' = new.error_notebook
           /\ error_archive' = new.error_archive
           /\ IF new.archived_count > 0
              THEN \/ /\ events' = Append(events,
                                          [type |-> "errors_archived",
                                           count |-> new.archived_count])
                      /\ raised' = "none"
                   \/ /\ events' = events
                      /\ raised' = "IOError"
              ELSE /\ events' = events
                   /\ raised' = "none"
    /\ call' = [op |-> "archive_stale_errors", index |-> 0,
                correct |-> FALSE, error |-> NoError]
    /\ Remember
    /\ calls' = [calls EXCEPT !.sweep = @ + 1]
    /\ UNCHANGED <<today, next_id>>

Clear ==
    /\ Budget /\ calls.clear < MaxClears
    /\ LET new == ClearReviewedErrors(State)
       IN  /\ error_notebook' = new.error_notebook
           /\ error_archive' = new.error_archive
    /\ call' = [op |-> "clear_reviewed_errors", index |-> 0,
                correct |-> FALSE, error |-> NoError]
    /\ Remember
    /\ raised' = "none"
    /\ calls' = [calls EXCEPT !.clear = @ + 1]
    /\ UNCHANGED <<today, next_id, events>>

\* the calendar advances between two invocations
Tick ==
    /\ Budget /\ calls.tick < MaxTicks
    /\ \E d \in TickDays : today' = today + d
    /\ call' = [op |-> "none", index |-> 0, correct |-> FALSE, error |-> NoError]
    /\ Remember
    /\ raised' = "none"
    /\ calls' = [calls EXCEPT !.tick = @ + 1]
    /\ UNCHANGED <<error_notebook, error_archive, next_id, events>>

Next == Add \/ Review \/ Sweep \/ Clear \/ Tick

Spec == Init /\ [][Next]_vars

-----------------------------------------------------------------------------
(* Properties of the notebook operations.                                  *)

Ids(list) == {list[k].id : k \in DOMAIN list}

Places(list, id) == {k \in DOMAIN list : list[k].id = id}

\* The entries that the last add_to_error_notebook call took out of the
\* active list: those of the list before the call, and the new one, that
\* are not active after it.
EvictedIds ==
    (Ids(before_notebook) \cup {call.error.id}) \ Ids(error_notebook)

\* C1: starting from at most 100 active entries, the active list holds at
\* most 100 entries after every add_to_error_notebook call, and every entry
\* that the cap evicted is in error_archive exactly once, with
\* archived_reason = 'notebook_full'.
C1_CapacityInvariant ==
    /\ Len(error_notebook) <= MAX_ERROR_NOTEBOOK_SIZE
    /\ call.op = "add_to_error_notebook" =>
          \A id \in EvictedIds :
              /\ Cardinality(Places(error_archive, id)) = 1
              /\ \A k \in Places(error_archive, id) :
                    error_archive[k].archived_reason = "notebook_full"

\* two calls in a row have each evicted an entry
C1_Witness ==
    /\ call.op = "add_to_error_notebook"
    /\ Len(before_notebook) = MAX_ERROR_NOTEBOOK_SIZE
    /\ EvictedIds # {}
    /\ Cardinality({k \in DOMAIN error_archive :
           error_archive[k].archived_reason = "notebook_full"}) = 2

\* the age in days that the sweep gives an entry: today minus its date, and
\* none when the date string names no day
C8_HasAge(e, days) ==
    /\ StrpDate(e.date) # 0
    /\ today - StrpDate(e.date) >= days

C8_Due(e) == ~e.reviewed /\ GetWrongCount(e) >= 3 /\ C8_HasAge(e, 30)

InRange(index, list) == 0 <= index /\ index < Len(list)

\* C9: review_error with an in-range index and correct = true sets reviewed
\* on that entry and keeps its wrong_count; with correct = false it adds
\* exactly 1 to the entry's wrong_count and keeps its reviewed flag, also
\* when the entry is already reviewed.
C9_ReviewTransition ==
    (call.op = "review_error" /\ InRange(call.index, before_notebook)) =>
        /\ Len(error_notebook) = Len(before_notebook)
        /\ LET old == before_notebook[call.index + 1]
               new == error_notebook[call.index + 1]
           IN  /\ new.id = old.id
               /\ IF call.correct
                  THEN new.reviewed /\ new.wrong_count = old.wrong_count
                  ELSE /\ new.wrong_count = GetWrongCount(old) + 1
                       /\ new.reviewed = old.reviewed

\* a wrong answer on an entry that an earlier review marked reviewed
C9_Witness ==
    /\ call.op = "review_error" /\ ~call.correct
    /\ InRange(call.index, before_notebook)
    /\ before_notebook[call.index + 1].reviewed
    /\ error_notebook[call.index + 1].reviewed
    /\ error_notebook[call.index + 1].wrong_count
           = GetWrongCount(before_notebook[call.index + 1]) + 1
    /\ calls.review = 2

\* C10: review_error with an index outside 0..len(error_notebook)-1, negative
\* or too large, with either value of correct, changes neither list nor any
\* entry and raises nothing.
C10_OutOfRangeNoOp ==
    (call.op = "review_error" /\ ~InRange(call.index, before_notebook)) =>
        /\ error_notebook = before_notebook
        /\ error_archive = before_archive
        /\ raised = "none"

\* a negative index on a notebook that has entries
C10_Witness ==
    /\ call.op = "review_error"
    /\ call.index < 0
    /\ Len(before_notebook) > 0
    /\ error_notebook = before_notebook

\* the entries of the archive that the last call appended
NewlyArchived == SubSeq(error_archive, Len(before_archive) + 1, Len(error_archive))

\* C11: an entry with reviewed = true is never moved into error_archive,
\* neither by the age sweep nor by the capacity eviction, and it leaves the
\* active list only through clear_reviewed_errors.
C11_ReviewedNeverEvicted ==
    \A i \in DOMAIN before_notebook :
        before_notebook[i].reviewed =>
            /\ before_notebook[i].id \notin Ids(NewlyArchived)
            /\ before_notebook[i].id \notin Ids(error_notebook)
                   => call.op = "clear_reviewed_errors"

\* C12: an entry in error_archive is not in error_notebook, and every call
\* leaves the entries that were archived before it as they were, in their
\* order, at the front of error_archive: the archive only grows.
C12_ArchiveMonotone ==
    /\ Ids(error_notebook) \cap Ids(error_archive) = {}
    /\ Len(before_archive) <= Len(error_archive)
    /\ SubSeq(error_archive, 1, Len(before_archive)) = before_archive

\* a sweep has appended to an archive that holds an evicted entry
C12_Witness ==
    /\ call.op = "archive_stale_errors"
    /\ Len(error_archive) > Len(before_archive)
    /\ \E k \in DOMAIN before_archive :
          before_archive[k].archived_reason = "notebook_full"
    /\ calls.add > 0

\* the list of add_to_error_notebook after the append: the entries before
\* the call and the new one, dated today
C13_Appended ==
    Append(before_notebook, [call.error EXCEPT !.date = IsoFormat(today)])

\* C13: when add_to_error_notebook pushes the list over 100 entries, exactly
\* one entry is removed; no entry of the list (the new one included) has a
\* smaller date, and of the entries with that date it is the first in list
\* order.
C13_EvictsOldest ==
    (call.op = "add_to_error_notebook"
        /\ Len(before_notebook) = MAX_ERROR_NOTEBOOK_SIZE) =>
        /\ Cardinality(EvictedIds) = 1
        /\ Len(error_notebook) = MAX_ERROR_NOTEBOOK_SIZE
        /\ \A p \in Places(C13_Appended, CHOOSE id \in EvictedIds : TRUE) :
              \A q \in DOMAIN C13_Appended :
                 /\ ~StrLess(C13_Appended[q].date, C13_Appended[p].date)
                 /\ C13_Appended[q].date = C13_Appended[p].date => p <= q

\* the evicted entry shared the smallest date with an entry that stayed
C13_Witness ==
    /\ call.op = "add_to_error_notebook"
    /\ Len(before_notebook) = MAX_ERROR_NOTEBOOK_SIZE
    /\ \E k \in DOMAIN error_notebook :
          error_notebook[k].date = error_archive[Len(error_archive)].date
    /\ error_archive[Len(error_archive)].archived_reason = "notebook_full"
    /\ error_archive[Len(error_archive)].id \in Ids(before_notebook)

\* C14: add_to_error_notebook stores the new entry with date = today and
\* reviewed = false, whatever the caller supplied for them, and with
\* wrong_count = 1 unless the caller supplied one, which is kept.
C14_AddStamps ==
    call.op = "add_to_error_notebook" =>
        /\ Cardinality(Places(error_notebook, call.error.id)) = 1
        /\ \A k \in Places(error_notebook, call.error.id) :
              /\ error_notebook[k].date = IsoFormat(today)
              /\ error_notebook[k].reviewed = FALSE
              /\ error_notebook[k].wrong_count =
                     IF call.error.wrong_count = Missing THEN 1
                     ELSE call.error.wrong_count

\* the caller supplied a date and reviewed = true, and both were replaced
C14_Witness ==
    /\ call.op = "add_to_error_notebook"
    /\ call.error.date = Supplied
    /\ call.error.reviewed
    /\ \E k \in Places(error_notebook, call.error.id) :
          /\ error_notebook[k].date = IsoFormat(today)
          /\ ~error_notebook[k].reviewed
          /\ error_notebook[k].wrong_count = 1

\* C17: after clear_reviewed_errors the active list holds exactly the
\* entries that were active and not reviewed before, unchanged and in their
\* relative order, and no reviewed entry; a second call changes nothing.
C17_ClearReviewed ==
    call.op = "clear_reviewed_errors" =>
        /\ \A k \in DOMAIN error_notebook : ~error_notebook[k].reviewed
        /\ \A i \in DOMAIN before_notebook :
              ~before_notebook[i].reviewed =>
                  \E k \in DOMAIN error_notebook :
                      error_notebook[k] = before_notebook[i]
        /\ Len(error_notebook) =
               Cardinality({i \in DOMAIN before_notebook :
                               ~before_notebook[i].reviewed})
        /\ \A p \in 1..(Len(error_notebook) - 1) :
              \A i \in Places(before_notebook, error_notebook[p].id),
                 j \in Places(before_notebook, error_notebook[p + 1].id) : i < j
        /\ ClearReviewedErrors(State) = State

\* reviewed entries were dropped from between entries that stayed
C17_Witness ==
    /\ call.op = "clear_reviewed_errors"
    /\ Len(error_notebook) > 1
    /\ Len(error_notebook) < Len(before_notebook)
    /\ \E i \in DOMAIN before_notebook :
          /\ before_notebook[i].reviewed
          /\ i > 1 /\ i < Len(before_notebook)

\* C18: every reviewed entry that clear_reviewed_errors removes from the
\* active list is in error_archive after the call.
C18_ClearedAreArchived ==
    call.op = "clear_reviewed_errors" =>
        \A i \in DOMAIN before_notebook :
            before_notebook[i].reviewed =>
                before_notebook[i].id \in Ids(error_archive)

\* C20: archive_stale_errors raises nothing, also when the append to the
\* event log fails, and the stale entries are in error_archive.
C20_LogFailureSwallowed ==
    call.op = "archive_stale_errors" =>
        /\ raised = "none"
        /\ \A i \in DOMAIN before_notebook :
              C8_Due(before_notebook[i]) =>
                  before_notebook[i].id \in Ids(NewlyArchived)

-----------------------------------------------------------------------------
(* get_errors_page over bounded notebooks and arguments.                   *)

\* "2026-02"
Feb == <<50, 48, 50, 54, 45, 48, 50>>

\* "2026-0"
HalfMonth == <<50, 48, 50, 54, 45, 48>>

PageDates ==
    { IsoFormat(ToOrdinal(2026, 2, 20)), IsoFormat(ToOrdinal(2026, 2, 3)),
      IsoFormat(ToOrdinal(2026, 1, 15)), <<>> }

\* every list of at most MaxPageEntries entries with these dates
PageNotebooks ==
    UNION { { [i \in 1..n |-> Entry(i, d[i], i % 2 = 0, 1)] :
                d \in [1..n -> PageDates] } : n \in 0..MaxPageEntries }

PageInputs == (0 - 1)..(MaxPageEntries + 1)

PerPageInputs == {0 - 1, 0, 1, 2, 5}

MonthInputs == {<<>>, Feb, HalfMonth}

RandomInputs == {1, 3}

InitPage ==
    /\ error_notebook \in PageNotebooks
    /\ error_archive = <<>>
    /\ today = StartDay
    /\ next_id = MaxPageEntries + 1
    /\ call = [op |-> "none", index |-> 0, correct |-> FALSE, error |-> NoError]
    /\ before_notebook = error_notebook
    /\ before_archive = error_archive
    /\ raised = "none"
    /\ events = <<>>
    /\ calls = NoCalls
    /\ query = NoQuery
    /\ result = NoResult
    /\ NoStore
    /\ NoSession

\* One invocation asks for one page:
\* get_errors_page(state, page, per_page, month) with random left at None
PageQuery ==
    /\ result.mode = "none"
    /\ \E page \in PageInputs, per_page \in PerPageInputs, month \in MonthInputs :
          /\ query' = [page |-> page, per_page |-> per_page,
                       month |-> month, random |-> 0]
          /\ result' = GetErrorsPage(State, page, per_page, month, 0, <<>>)
    /\ UNCHANGED <<notebook_vars, store_vars, session_vars>>

\* get_errors_page(state, month=month, random=random), page and per_page at
\* their defaults 1 and 5
RandomQuery ==
    /\ result.mode = "none"
    /\ \E month \in MonthInputs, random \in RandomInputs :
          LET pool == FilteredErrors(State, month)
              count == IF random < Len(pool) THEN random ELSE Len(pool)
          IN  \E selected \in Samples(pool, count) :
                  /\ query' = [page |-> 1, per_page |-> 5,
                               month |-> month, random |-> random]
                  /\ result' = GetErrorsPage(State, 1, 5, month, random, selected)
    /\ UNCHANGED <<notebook_vars, store_vars, session_vars>>

\* One invocation asks for the statistics: get_error_stats(state)
StatsQuery ==
    /\ result.mode = "none"
    /\ query' = NoQuery
    /\ result' = GetErrorStats(State)
    /\ UNCHANGED <<notebook_vars, store_vars, session_vars>>

NextPage == PageQuery \/ RandomQuery \/ StatsQuery

SpecPage == InitPage /\ [][NextPage]_vars

\* the active entries that a month filter selects (all when none is given)
C7_Selected(month) ==
    SelectSeq(error_notebook,
              LAMBDA e : month = <<>> \/ StartsWith(e.date, month))

\* the 'errors' of pages first..last of the paginated call, one after another
RECURSIVE C7_Pages(_, _, _, _)
C7_Pages(first, last, per_page, month) ==
    IF first > last THEN <<>>
    ELSE GetErrorsPage(State, first, per_page, month, 0, <<>>).errors
             \o C7_Pages(first + 1, last, per_page, month)

\* C7: in paginated mode, for a page size P >= 1 and N entries selected by
\* the month filter, the 'errors' of pages 1..ceil(N/P) put together are
\* exactly those N entries, each once, sorted by date descending, and every
\* page reports total = N.
C7_PaginationCorrectness ==
    (result.mode = "paginated" /\ query.per_page >= 1) =>
        LET P == query.per_page
            selected == C7_Selected(query.month)
            N == Len(selected)
            last == CHOOSE c \in 0..N : c * P >= N /\ (c = 0 \/ (c - 1) * P < N)
            all == C7_Pages(1, last, P, query.month)
        IN  /\ Len(all) = N
            /\ \A k \in DOMAIN selected :
                  Cardinality({j \in DOMAIN all : all[j] = selected[k]}) = 1
            /\ \A i, j \in DOMAIN all :
                  i < j => ~StrLess(all[i].date, all[j].date)
            /\ \A page \in 1..last :
                  GetErrorsPage(State, page, P, query.month, 0, <<>>).total = N
            /\ result.total = N
            /\ query.page \in 1..last =>
                  result.errors =
                      SubSeq(all, (query.page - 1) * P + 1,
                             IF query.page * P < N THEN query.page * P ELSE N)

\* the second of two pages of the three February entries of a notebook that
\* also holds other entries
C7_Witness ==
    /\ result.mode = "paginated"
    /\ query.month = Feb /\ query.per_page = 2 /\ query.page = 2
    /\ result.total = 3 /\ result.total_pages = 2
    /\ Len(result.errors) = 1
    /\ Len(error_notebook) = 4
    /\ \E i, j \in DOMAIN error_notebook :
          /\ i < j
          /\ StartsWith(error_notebook[i].date, Feb)
          /\ StartsWith(error_notebook[j].date, Feb)
          /\ StrLess(error_notebook[i].date, error_notebook[j].date)

\* ceil(n / p) for p >= 1
CeilDiv(n, p) == CHOOSE c \in 0..n : c * p >= n /\ (c = 0 \/ (c - 1) * p < n)

\* C15: in paginated mode with a page size of at least 1, total_pages is
\* ceil(total / per_page) and the returned page is the requested one clamped
\* into [1, total_pages] (page 1 of 0 pages for an empty list); has_more
\* holds exactly when page < total_pages, has_prev exactly when page > 1,
\* and the slice has at most per_page entries.
C15_PageClamping ==
    (result.mode = "paginated" /\ query.per_page >= 1) =>
        LET total == Len(C7_Selected(query.month))
            total_pages == CeilDiv(total, query.per_page)
        IN  /\ result.total = total
            /\ result.total_pages = total_pages
            /\ result.per_page = query.per_page
            /\ result.page = IF query.page > total_pages /\ total_pages >= 1
                             THEN total_pages
                             ELSE IF query.page < 1 \/ total_pages < 1 THEN 1
                             ELSE query.page
            /\ result.has_more = (result.page < total_pages)
            /\ result.has_prev = (result.page > 1)
            /\ Len(result.errors) <= query.per_page

\* a page past the last one was asked for and the last one came back
C15_Witness ==
    /\ result.mode = "paginated"
    /\ query.per_page = 2
    /\ query.page > result.total_pages
    /\ result.total_pages = 2
    /\ result.page = 2
    /\ result.has_prev /\ ~result.has_more
    /\ Len(result.errors) = 1

\* C16: in random mode get_errors_page returns min(random, total) entries,
\* each from the month-filtered entries and none twice, with per_page = the
\* number returned, has_more = (total > that number) and mode = 'random';
\* with total = 0 the selection is empty; the notebook is left as it was.
C16_RandomMode ==
    result.mode = "random" =>
        LET pool == C7_Selected(query.month)
            total == Len(pool)
            count == IF query.random < total THEN query.random ELSE total
        IN  /\ query.random > 0
            /\ result.total = total
            /\ Len(result.errors) = count
            /\ \A i \in DOMAIN result.errors :
                  \E k \in DOMAIN pool : pool[k] = result.errors[i]
            /\ \A i, j \in DOMAIN result.errors :
                  i # j => result.errors[i].id # result.errors[j].id
            /\ result.per_page = count
            /\ result.has_more = (total > count)
            /\ total = 0 => result.errors = <<>>
            /\ error_notebook = before_notebook

\* three were asked for, the month has two, and they came back newest last
C16_Witness ==
    /\ result.mode = "random"
    /\ query.random = 3 /\ query.month = Feb
    /\ result.total = 2
    /\ Len(result.errors) = 2
    /\ ~result.has_more
    /\ Len(error_notebook) = 4
    /\ StrLess(result.errors[1].date, result.errors[2].date)

RECURSIVE C19_Sum(_)
C19_Sum(by_month) ==
    IF by_month = <<>> THEN 0
    ELSE Head(by_month).count + C19_Sum(Tail(by_month))

C19_Dated == {i \in DOMAIN error_notebook : error_notebook[i].date # <<>>}

\* what the claim says of the counters and of the entries of by_month
C19_Counters ==
    /\ result.total = Len(error_notebook)
    /\ result.reviewed =
           Cardinality({i \in DOMAIN error_notebook : error_notebook[i].reviewed})
    /\ result.unreviewed = result.total - result.reviewed
    /\ \A i \in C19_Dated :
          \E k \in DOMAIN result.by_month :
              result.by_month[k].month = Prefix(error_notebook[i].date, 7)
    /\ \A k \in DOMAIN result.by_month :
          /\ result.by_month[k].count > 0
          /\ result.by_month[k].count =
                 Cardinality({i \in C19_Dated :
                     StartsWith(error_notebook[i].date, result.by_month[k].month)})
    /\ \A j, k \in DOMAIN result.by_month :
          j < k => StrLess(result.by_month[k].month, result.by_month[j].month)
    /\ error_notebook = <<>> =>
          /\ result.total = 0 /\ result.reviewed = 0 /\ result.unreviewed = 0
          /\ result.by_month = <<>>

\* C19 as stated: get_error_stats returns total, reviewed and unreviewed =
\* total - reviewed of the active list and by_month, the count of entries
\* for each YYYY-MM, in descending month order, with counts summing to
\* total; all zero and an empty map for an empty notebook.
C19_Stats ==
    result.mode = "stats" =>
        /\ C19_Counters
        /\ C19_Sum(result.by_month) = result.total

\* C19, amended: as stated, but the counts of by_month sum to the number of
\* active entries that carry a date, which is total only when every entry
\* does.
C19_StatsOfDated ==
    result.mode = "stats" =>
        /\ C19_Counters
        /\ C19_Sum(result.by_month) = Cardinality(C19_Dated)
        /\ C19_Dated = DOMAIN error_notebook =>
              C19_Sum(result.by_month) = result.total

\* two months, newest first, and one entry without a date
C19_Witness ==
    /\ result.mode = "stats"
    /\ Len(result.by_month) = 2
    /\ result.total = 4
    /\ C19_Sum(result.by_month) = 3
    /\ result.by_month[1].month = Feb
    /\ result.by_month[1].count = 2
    /\ result.reviewed = 2

-----------------------------------------------------------------------------
(* The state file over a run of load_state and save_state calls.           *)

\* no notebook call is in play
NoNotebook ==
    /\ error_notebook = <<>>
    /\ error_archive = <<>>
    /\ today = StartDay
    /\ next_id = 1
    /\ call = [op |-> "none", index |-> 0, correct |-> FALSE, error |-> NoError]
    /\ before_notebook = <<>>
    /\ before_archive = <<>>
    /\ raised = "none"
    /\ events = <<>>
    /\ calls = NoCalls
    /\ query = NoQuery
    /\ result = NoResult

\* a document written by an older version: most fields are missing
PartialDoc ==
    Obj([key \in {"user", "progress"} |->
        IF key = "user" THEN Obj([x \in {"xp"} |-> Num("50")])
        ELSE Obj([x \in {"total_quizzes"} |-> Num("5")])])

StoredEntry ==
    Obj([x \in {"date", "question", "reviewed"} |->
        CASE x = "date" -> Str("2026-02-20")
          [] x = "question" -> Str("q1")
          [] x = "reviewed" -> Bool("false")])

\* what a user's document differs in from the defaults
Changes ==
    Obj([key \in {"initialized", "onboarding_step", "user", "preferences",
                  "progress", "error_notebook"} |->
        CASE key = "initialized" -> Bool("true")
          [] key = "onboarding_step" -> Num("6")
          [] key = "user" ->
                Obj([x \in {"xp", "level", "badges"} |->
                    CASE x = "xp" -> Num("120")
                      [] x = "level" -> Num("3")
                      [] x = "badges" -> Arr(<<Str("first_steps")>>)])
          [] key = "preferences" ->
                Obj([x \in {"cefr_level", "topics"} |->
                    IF x = "cefr_level" THEN Str("B2")
                    ELSE Obj([t \in {"movies", "travel"} |-> Num("0.5")])])
          [] key = "progress" ->
                Obj([x \in {"total_quizzes", "last_study_date"} |->
                    IF x = "total_quizzes" THEN Num("7")
                    ELSE Str("2026-02-28")])
          [] key = "error_notebook" -> Arr(<<StoredEntry>>)])

\* a complete document of a user who has studied
ChangedState == DeepMerge(DefaultState, Changes)

\* a state file that ends in the middle of the document
Truncated == SubSeq(DumpJson(ChangedState), 1, 10)

\* state files that a run may start from
StoreFiles ==
    { NoFile,
      File(DumpJson(DefaultState)),
      File(DumpJson(PartialDoc)),
      File(DumpJson(ChangedState)),
      File(Truncated),
      File(<<>>),
      File(DumpJson(Arr(<<>>))),
      File(DumpJson(Null)),
      File(<<Tok("byte", "ff")>>) }

\* what an earlier crash may have left under the temporary name
TempFiles == {NoFile, File(SubSeq(DumpJson(DefaultState), 1, 7))}

InitStore ==
    /\ NoNotebook
    /\ fs \in [Paths -> StoreFiles \cup TempFiles]
    /\ fs[StateFile] \in StoreFiles
    /\ fs[TempFile] \in TempFiles
    /\ document = NoDoc
    /\ pc = "idle"
    /\ saving = NoDoc
    /\ prev_file = NoFile
    /\ store_last = "none"
    /\ store_raised = "none"
    /\ fault = "none"
    /\ rt_doc = NoDoc
    /\ rt_saved = FALSE
    /\ rt_prev = NoDoc
    /\ store_calls = NoStoreCalls
    /\ NoSession

NextStore ==
    \/ Load
    \/ Update
    \/ SaveBegin
    \/ SaveOpen
    \/ SaveWrite
    \/ SaveClose
    \/ SaveRename
    \/ SaveIOError
    \/ Crash

SpecStore == InitStore /\ [][NextStore]_vars

-----------------------------------------------------------------------------
(* load_state on stored documents that lack fields of the default shape.   *)

\* the key paths of a document, through its nested dicts
RECURSIVE PathsOf(_)
PathsOf(doc) ==
    UNION { {<<key>>} \cup
            (IF IsDict(doc.o[key])
             THEN {<<key>> \o path : path \in PathsOf(doc.o[key])}
             ELSE {}) : key \in DOMAIN doc.o }

\* the document without the fields at the paths
RECURSIVE Prune(_, _)
Prune(doc, paths) ==
    Obj([key \in {k \in DOMAIN doc.o : <<k>> \notin paths} |->
        IF IsDict(doc.o[key])
        THEN Prune(doc.o[key],
                   {Tail(path) : path \in
                        {q \in paths : Len(q) > 1 /\ Head(q) = key}})
        ELSE doc.o[key]])

\* the sets of at most k of the paths
RECURSIVE PathSets(_, _)
PathSets(paths, k) ==
    IF k = 0 THEN {{}}
    ELSE LET smaller == PathSets(paths, k - 1)
         IN  smaller \cup {S \cup {path} : S \in smaller, path \in paths}

FullDocs == {DefaultState, ChangedState}

InitLoad ==
    /\ NoNotebook
    /\ \E base \in FullDocs :
       \E paths \in PathSets(PathsOf(base), MaxDeleted) :
          fs = [path \in Paths |->
                   IF path = StateFile THEN File(DumpJson(Prune(base, paths)))
                   ELSE NoFile]
    /\ document = NoDoc
    /\ pc = "idle"
    /\ saving = NoDoc
    /\ prev_file = NoFile
    /\ store_last = "none"
    /\ store_raised = "none"
    /\ fault = "none"
    /\ rt_doc = NoDoc
    /\ rt_saved = FALSE
    /\ rt_prev = NoDoc
    /\ store_calls = NoStoreCalls
    /\ NoSession

\* one invocation loads the stored document once
LoadStored ==
    /\ store_last = "none"
    /\ Load

NextLoad == LoadStored

SpecLoad == InitLoad /\ [][NextLoad]_vars

-----------------------------------------------------------------------------
(* save_state and load_state: the claims.                                  *)

NewFile == File(DumpJson(saving))

\* C2: while save_state runs, and after a crash at any of its steps (before
\* the temporary file is opened, while it is written, before the rename),
\* the state file is what it was when save_state was called or the complete
\* dump of the new document, never a part of it.
C2_CrashAtomicity ==
    (pc # "idle" \/ store_last = "crash") =>
        fs[StateFile] \in {prev_file, NewFile}

\* a crash while the temporary file was half written
C2_Witness ==
    /\ store_last = "crash"
    /\ fault = "write"
    /\ Len(fs[TempFile].text) > 0
    /\ Len(fs[TempFile].text) < Len(NewFile.text)
    /\ prev_file.exists
    /\ NewFile # prev_file
    /\ fs[StateFile] = prev_file

\* C3: when a step of save_state fails with an IOError, save_state raises
\* it to its caller, the temporary file is gone once it has raised, and the
\* state file is what it was when save_state was called.
C3_WriteFailure ==
    (store_last = "save_state" /\ fault \in {"open", "write", "rename"}) =>
        /\ store_raised = "IOError"
        /\ ~fs[TempFile].exists
        /\ fs[StateFile] = prev_file

\* a write failed after a part of the document had reached the disk
C3_Witness ==
    /\ store_last = "save_state"
    /\ fault = "write"
    /\ store_raised = "IOError"
    /\ NewFile # prev_file
    /\ prev_file.exists
    /\ ~fs[TempFile].exists

\* the state file is missing, or holds no state document
NoStateDocument(file) ==
    \/ ~file.exists
    \/ \E i \in DOMAIN file.text : file.text[i].t = "byte"
    \/ ~ParseJson(file.text).ok
    \/ ~IsDict(ParseJson(file.text).val)

\* C4: load_state never raises to its caller, and when the state file is
\* missing or does not parse into a state document it returns the default
\* document.
C4_LoadNeverRaises ==
    store_last = "load_state" =>
        /\ store_raised = "none"
        /\ NoStateDocument(fs[StateFile]) => document = DefaultState

\* the document that the state file holds
Stored == ParseJson(fs[StateFile].text).val

\* every field of the default shape is in the result, with the stored value
\* where the stored document has the field and the default where it has not
RECURSIVE Complete(_, _, _)
Complete(merged, default, stored) ==
    /\ IsDict(merged)
    /\ DOMAIN merged.o = DOMAIN default.o \cup DOMAIN stored.o
    /\ \A key \in DOMAIN merged.o :
          IF key \notin DOMAIN stored.o THEN merged.o[key] = default.o[key]
          ELSE IF key \in DOMAIN default.o /\ IsDict(default.o[key])
                                           /\ IsDict(stored.o[key])
          THEN Complete(merged.o[key], default.o[key], stored.o[key])
          ELSE merged.o[key] = stored.o[key]

\* C5: for a stored document that is the default shape with fields deleted
\* at the top or inside, load_state returns a document with every field of
\* the default shape, recursively: the stored value where the field was
\* stored, the default where it was missing.
C5_MergeCompleteness ==
    (store_last = "load_state" /\ fault = "none") =>
        /\ store_raised = "none"
        /\ PathsOf(DefaultState) \subseteq PathsOf(document)
        /\ Complete(document, DefaultState, Stored)

\* a top-level field and a nested field were missing, a stored value was kept
C5_Witness ==
    /\ store_last = "load_state"
    /\ fault = "none"
    /\ "schedule" \notin DOMAIN Stored.o
    /\ "user" \in DOMAIN Stored.o
    /\ "level" \notin DOMAIN Stored.o["user"].o
    /\ Stored.o["user"].o["xp"] = Num("120")
    /\ document.o["user"].o["xp"] = Num("120")
    /\ document.o["user"].o["level"] = Num("1")
    /\ document.o["schedule"] = DefaultState.o["schedule"]

\* C6: when the document that load_state returned is saved as it is, the
\* next load_state returns an equal document, and so after every further
\* save and load.
C6_RoundTrip ==
    (store_last = "load_state" /\ fault = "none" /\ rt_prev # NoDoc) =>
        /\ store_raised = "none"
        /\ document = rt_prev

\* load, save, load, save, load of a document that is not the default
C6_Witness ==
    /\ store_last = "load_state"
    /\ fault = "none"
    /\ rt_prev # NoDoc
    /\ rt_prev # DefaultState
    /\ document = rt_prev
    /\ store_calls.load = MaxLoads
    /\ store_calls.save >= 2

-----------------------------------------------------------------------------
(* Nested mappings through save_state and load_state.                      *)

\* the topic weights of a document
TopicsOf(doc) == doc.o["preferences"].o["topics"]

\* C29: after update_preferences(state, topics = T) and save_state, the
\* document that load_state returns has preferences.topics equal to T: no
\* default topic key that T lacks comes back through the merge with the
\* defaults.  Here T is NewTopics, and the file is the saved document.
C29_TopicsLoadedUnchanged ==
    (/\ store_last = "load_state"
     /\ store_raised = "none"
     /\ fault = "none"
     /\ saving # NoDoc
     /\ document # NoDoc
     /\ fs[StateFile] = File(DumpJson(saving))
     /\ TopicsOf(saving) = NewTopics)
    => TopicsOf(document) = NewTopics

-----------------------------------------------------------------------------
(* The order of the active list across add_to_error_notebook.              *)

\* the position of the entry id in a list that holds it once
PlaceOf(list, id) == CHOOSE k \in DOMAIN list : list[k].id = id

\* C28: add_to_error_notebook keeps the relative order of the entries that
\* stay active, also when it evicts: two entries that were active before
\* the call and are active after it appear in the same order, and the new
\* entry is last.
C28_AddPreservesOrder ==
    call.op = "add_to_error_notebook" =>
        /\ \A a, b \in Ids(before_notebook) \cap Ids(error_notebook) :
              PlaceOf(before_notebook, a) < PlaceOf(before_notebook, b)
                  => PlaceOf(error_notebook, a) < PlaceOf(error_notebook, b)
        /\ error_notebook[Len(error_notebook)].id = call.error.id

-----------------------------------------------------------------------------
(* Where the entries of the notebook are.                                  *)

\* C26: over add_to_error_notebook, review_error, archive_stale_errors and
\* clear_reviewed_errors calls, each call handed a dict of its own, no
\* entry is in both error_notebook and error_archive, no entry occurs twice
\* in either list, and every entry is in exactly one of three places: each
\* call leaves every entry it found, and the one it was given, in the
\* active list or in the archive, except that clear_reviewed_errors removes
\* active entries, and only those with reviewed = true.
C26_EntriesConserved ==
    LET known == Ids(before_notebook) \cup Ids(before_archive) \cup
                     (IF call.op = "add_to_error_notebook"
                      THEN {call.error.id} ELSE {})
        held == Ids(error_notebook) \cup Ids(error_archive)
    IN  /\ Ids(error_notebook) \cap Ids(error_archive) = {}
        /\ Cardinality(Ids(error_notebook)) = Len(error_notebook)
        /\ Cardinality(Ids(error_archive)) = Len(error_archive)
        /\ held \subseteq known
        /\ Ids(before_archive) \subseteq Ids(error_archive)
        /\ \A id \in known \ held :
              /\ call.op = "clear_reviewed_errors"
              /\ \E k \in DOMAIN before_notebook :
                    before_notebook[k].id = id /\ before_notebook[k].reviewed

\* the sweep has moved entries into an archive that held one, and entries
\* stay active
C26_Witness ==
    /\ call.op = "archive_stale_errors"
    /\ before_archive # <<>>
    /\ Len(error_archive) > Len(before_archive)
    /\ error_notebook # <<>>
    /\ Len(error_notebook) + Len(error_archive)
           = Len(before_notebook) + Len(before_archive)

-----------------------------------------------------------------------------
(* Scorer.evaluate_quiz and the notebook.                                  *)

\* The part of Scorer._update_state that touches the notebook: one entry
\* per wrong answer, dated results['date'], appended to the list as it is.
\* The entries carry no wrong_count; first_id is the first new dict.
UpdateState(state, wrong, first_id, date) ==
    [state EXCEPT !.error_notebook =
        @ \o [i \in 1..wrong |-> Entry(first_id + i - 1, date, FALSE, Missing)]]

\* the wrong answers of a quiz: none, one, all of a long quiz
WrongAnswers == {0, 1, MaxQuestions}

\* results, state = scorer.evaluate_quiz(quiz, user_answers, state); the XP
\* and the quiz counters that it also updates are not part of the model
Grade ==
    /\ calls.grade < MaxGrades
    /\ \E wrong \in WrongAnswers :
          LET new == UpdateState(State, wrong, next_id, IsoFormat(today))
          IN  /\ error_notebook' = new.error_notebook
              /\ error_archive' = new.error_archive
              /\ next_id' = next_id + wrong
              /\ call' = [op |-> "evaluate_quiz", index |-> wrong,
                          correct |-> FALSE, error |-> NoError]
    /\ user' = [user EXCEPT !.last_study_date = IsoFormat(today)]
    /\ before_notebook' = error_notebook
    /\ before_archive' = error_archive
    /\ raised' = "none"
    /\ calls' = [calls EXCEPT !.grade = @ + 1]
    /\ UNCHANGED <<today, events, query, result, store_vars,
                   history, op, cli, daily, procs>>

\* a new user: nothing in the notebook, nothing archived
InitScore ==
    /\ NoNotebook
    /\ NoStore
    /\ NoSession

NextScore ==
    \/ Grade
    \/ Add

SpecScore == InitScore /\ [][NextScore]_vars

\* C27: after any sequence of evaluate_quiz and add_to_error_notebook calls
\* starting from an empty notebook, error_notebook holds at most 100
\* entries.
C27_CapHoldsForQuizErrors ==
    Len(error_notebook) <= MAX_ERROR_NOTEBOOK_SIZE

-----------------------------------------------------------------------------
(* GamificationManager.update_streak.                                      *)

\* update_streak that spends a streak freeze without looking at the count
UpdateStreak_FreezeUnchecked(u, study_date) ==
    LET current_streak == u.streak
        day == StrpDate(study_date)
        last == StrpDate(u.last_study_date)
        return(new, streak, continued, message, exc) ==
            [user |-> new, raised |-> exc,
             ret |-> [streak |-> streak, continued |-> continued,
                      message |-> message]]
    IN  IF day = 0
        THEN return(u, current_streak, FALSE, "Invalid date format", "none")
        ELSE IF u.last_study_date = <<>>
        THEN return([u EXCEPT !.streak = 1], 1, TRUE, "Started your streak!",
                    "none")
        ELSE IF last = 0
        THEN return(u, 0, FALSE, "", "TypeError")
        ELSE IF last = day
        THEN return(u, current_streak, FALSE, "Already studied today", "none")
        ELSE IF day - last = 1
        THEN return([u EXCEPT !.streak = current_streak + 1],
                    current_streak + 1, TRUE, "Streak continued!", "none")
        ELSE IF day - last = 2 /\ TRUE
        THEN return([u EXCEPT !.streak_freeze = @ - 1,
                              !.streak = current_streak + 1,
                              !.last_freeze_used = study_date],
                    current_streak + 1, TRUE, "Streak freeze used!", "none")
        ELSE return([u EXCEPT !.streak = 1], 1, FALSE, "Streak broken.",
                    "none")

\* update_streak(state, study_date) on u = state['user'] with
\* progress['last_study_date']: the user afterwards, the tuple returned and
\* the exception raised.  strptime of a last_study_date that is no date
\* leaves last = None, which is not equal to today, and today - None raises
\* TypeError before anything is assigned.
UpdateStreak(u, study_date) ==
    LET current_streak == u.streak
        day == StrpDate(study_date)
        last == StrpDate(u.last_study_date)
        return(new, streak, continued, message, exc) ==
            [user |-> new, raised |-> exc,
             ret |-> [streak |-> streak, continued |-> continued,
                      message |-> message]]
    IN  IF day = 0
        THEN return(u, current_streak, FALSE, "Invalid date format", "none")
        ELSE IF u.last_study_date = <<>>
        THEN return([u EXCEPT !.streak = 1], 1, TRUE, "Started your streak!",
                    "none")
        ELSE IF last = 0
        THEN return(u, 0, FALSE, "", "TypeError")
        ELSE IF last = day
        THEN return(u, current_streak, FALSE, "Already studied today", "none")
        ELSE IF day - last = 1
        THEN return([u EXCEPT !.streak = current_streak + 1],
                    current_streak + 1, TRUE, "Streak continued!", "none")
        ELSE IF day - last = 2 /\ u.streak_freeze > 0
        THEN return([u EXCEPT !.streak_freeze = @ - 1,
                              !.streak = current_streak + 1,
                              !.last_freeze_used = study_date],
                    current_streak + 1, TRUE, "Streak freeze used!", "none")
        ELSE return([u EXCEPT !.streak = 1], 1, FALSE, "Streak broken.",
                    "none")

\* the days a caller names: the day before the stored one up to three days
\* after it, a date that strptime rejects, the empty string
StudyDates ==
    {IsoFormat(StartDay + k) : k \in -1..3} \cup {NoSuchDay, <<>>}

\* what load_state can return as last_study_date: None, dates as the scorer
\* writes them (the last day of February, the first of March), a date
\* without padding, a non-empty string that is no date
LastStudyDates ==
    {<<>>, IsoFormat(StartDay - 1), IsoFormat(StartDay), Unpadded, NoSuchDay}

InitStreak ==
    /\ NoNotebook
    /\ NoStore
    /\ user \in [streak : {0, 3}, streak_freeze : 0..MaxFreeze,
                  last_study_date : LastStudyDates, last_freeze_used : {<<>>}]
    /\ history = <<>>
    /\ op = [name |-> "none", count |-> 0]
    /\ cli = [command |-> "none"]
    /\ daily = {}
    /\ procs = <<>>

\* streak, continued, message = gm.update_streak(state, study_date)
Streak ==
    /\ op.count < MaxStudies
    /\ \E study_date \in StudyDates :
          LET out == UpdateStreak(user, study_date)
          IN  /\ user' = out.user
              /\ op' = [name |-> "update_streak", count |-> op.count + 1,
                        study_date |-> study_date, before |-> user,
                        raised |-> out.raised, ret |-> out.ret]
    /\ UNCHANGED <<notebook_vars, query, result, store_vars,
                   history, cli, daily, procs>>

NextStreak == Streak

SpecStreak == InitStreak /\ [][NextStreak]_vars

\* C25 as stated: update_streak follows the table (no last_study_date: the
\* streak becomes 1; study_date equal to last_study_date: streak and
\* streak_freeze unchanged; one day after: streak + 1; two days after with
\* streak_freeze > 0: streak + 1 and streak_freeze - 1; every other case:
\* the streak is reset to 1), and streak_freeze never becomes negative.
C25_TransitionTable ==
    /\ user.streak_freeze >= 0
    /\ op.name = "update_streak" =>
          LET b == op.before
              day == StrpDate(op.study_date)
              last == StrpDate(b.last_study_date)
              same == op.study_date = b.last_study_date
                          \/ (day # 0 /\ day = last)
              after(k) == day # 0 /\ last # 0 /\ day - last = k
          IN  IF b.last_study_date = <<>>
              THEN user.streak = 1
              ELSE IF same
              THEN /\ user.streak = b.streak
                   /\ user.streak_freeze = b.streak_freeze
              ELSE IF after(1)
              THEN user.streak = b.streak + 1
              ELSE IF after(2) /\ b.streak_freeze > 0
              THEN /\ user.streak = b.streak + 1
                   /\ user.streak_freeze = b.streak_freeze - 1
              ELSE user.streak = 1

\* C25, amended: the table holds when study_date is a valid date and
\* last_study_date is absent or a valid date, the two being compared as
\* days; a study_date that is no date changes nothing and returns the
\* current streak; a valid study_date against a non-empty last_study_date
\* that is no date raises TypeError and changes nothing; streak_freeze
\* never becomes negative.
C25_TableForDates ==
    /\ user.streak_freeze >= 0
    /\ op.name = "update_streak" =>
          LET b == op.before
              day == StrpDate(op.study_date)
              last == StrpDate(b.last_study_date)
              same == day = last
              after(k) == day - last = k
          IN  IF day = 0
              THEN /\ user = b
                   /\ op.raised = "none"
                   /\ op.ret.streak = b.streak
              ELSE IF b.last_study_date # <<>> /\ last = 0
              THEN /\ user = b
                   /\ op.raised = "TypeError"
              ELSE /\ op.raised = "none"
                   /\ op.ret.streak = user.streak
                   /\ IF b.last_study_date = <<>>
                      THEN user.streak = 1
                      ELSE IF same
                      THEN /\ user.streak = b.streak
                           /\ user.streak_freeze = b.streak_freeze
                      ELSE IF after(1)
                      THEN user.streak = b.streak + 1
                      ELSE IF after(2) /\ b.streak_freeze > 0
                      THEN /\ user.streak = b.streak + 1
                           /\ user.streak_freeze = b.streak_freeze - 1
                      ELSE user.streak = 1

\* a streak freeze was spent on a gap of one day across the end of February
C25_Witness ==
    /\ op.name = "update_streak"
    /\ StrpDate(op.before.last_study_date) = StartDay - 1
    /\ StrpDate(op.study_date) = StartDay + 1
    /\ op.before.streak_freeze > 0
    /\ user.streak = op.before.streak + 1
    /\ user.streak_freeze = op.before.streak_freeze - 1
    /\ user.last_freeze_used = op.study_date

\* C30: update_streak raises no exception for any stored last_study_date
\* string: for a non-empty last_study_date that is no valid date it still
\* returns a (streak, continued, message) tuple.
C30_NoExceptionForStoredDate ==
    op.name = "update_streak" => op.raised = "none"

-----------------------------------------------------------------------------
(* StateManager.record_keypoint_view and has_viewed_keypoint.              *)

\* the entries that record_keypoint_view keeps: history[-30:]
KEPT_VIEWS == 30

\* record_keypoint_view that keeps the first 30 entries: history[:30]
RecordKeypointView_KeepsOldest(views, view_date, viewed_at) ==
    LET all == Append(views, [date |-> IsoFormat(view_date),
                              viewed_at |-> viewed_at])
    IN  PySlice(all, 0, KEPT_VIEWS)

\* record_keypoint_view(state, view_date) on the view history; viewed_at
\* stands for datetime.now().isoformat()
RecordKeypointView(views, view_date, viewed_at) ==
    LET all == Append(views, [date |-> IsoFormat(view_date),
                              viewed_at |-> viewed_at])
    IN  PySlice(all, -KEPT_VIEWS, Len(all))

\* has_viewed_keypoint(state, view_date)
HasViewedKeypoint(views, view_date) ==
    \E i \in DOMAIN views : views[i].date = IsoFormat(view_date)

\* a history that earlier calls left: n views of n consecutive days, the
\* k-th recorded at moment k
InitViews(n) ==
    [k \in 1..n |-> [date |-> IsoFormat(StartDay - 40 + k), viewed_at |-> k]]

\* the days a caller asks about or records: the oldest day of a stored
\* history, today, tomorrow
ViewDays == {StartDay - 39, StartDay, StartDay + 1}

InitHistory ==
    /\ NoNotebook
    /\ NoStore
    /\ user = [streak |-> 0, streak_freeze |-> 0, last_study_date |-> <<>>,
               last_freeze_used |-> <<>>]
    /\ \E n \in {0, KEPT_VIEWS - 1, KEPT_VIEWS} : history = InitViews(n)
    /\ op = [name |-> "none", count |-> 0, log |-> history,
             date |-> 0, result |-> FALSE]
    /\ cli = [command |-> "none"]
    /\ daily = {}
    /\ procs = <<>>

\* sm.record_keypoint_view(state, view_date); op.log is every view recorded
RecordView ==
    /\ op.count < MaxViews
    /\ \E view_date \in ViewDays :
          /\ history' = RecordKeypointView(history, view_date, Len(op.log) + 1)
          /\ op' = [name |-> "record_keypoint_view", count |-> op.count + 1,
                    log |-> Append(op.log, [date |-> IsoFormat(view_date),
                                            viewed_at |-> Len(op.log) + 1]),
                    date |-> view_date, result |-> FALSE]
    /\ UNCHANGED <<notebook_vars, query, result, store_vars,
                   user, cli, daily, procs>>

\* sm.has_viewed_keypoint(state, view_date)
CheckView ==
    /\ op.count < MaxViews
    /\ \E view_date \in ViewDays :
          op' = [op EXCEPT !.name = "has_viewed_keypoint",
                           !.count = @ + 1,
                           !.date = view_date,
                           !.result = HasViewedKeypoint(history, view_date)]
    /\ UNCHANGED <<notebook_vars, query, result, store_vars,
                   user, history, cli, daily, procs>>

NextHistory ==
    \/ RecordView
    \/ CheckView

SpecHistory == InitHistory /\ [][NextHistory]_vars

\* C24: after any sequence of record_keypoint_view calls the history holds
\* at most 30 entries, and they are the most recently recorded views in
\* recording order; has_viewed_keypoint(d) is true exactly when one of the
\* retained entries has date d.
C24_ViewHistory ==
    /\ Len(history) <= KEPT_VIEWS
    /\ Len(history) = IF Len(op.log) < KEPT_VIEWS THEN Len(op.log)
                      ELSE KEPT_VIEWS
    /\ history = SubSeq(op.log, Len(op.log) - Len(history) + 1, Len(op.log))
    /\ op.name = "has_viewed_keypoint" =>
          (op.result <=> \E i \in DOMAIN history :
                            history[i].date = IsoFormat(op.date))

\* views were dropped from a full history, and a day whose view was dropped
\* is reported as not viewed, a day recorded since as viewed
C24_Witness ==
    /\ Len(op.log) > KEPT_VIEWS
    /\ Len(history) = KEPT_VIEWS
    /\ op.name = "has_viewed_keypoint"
    /\ ~op.result
    /\ op.log[1].date = IsoFormat(op.date)
    /\ history[KEPT_VIEWS].date = IsoFormat(StartDay)

-----------------------------------------------------------------------------
(* The command line: cli.main().  One action is one process: it parses its *)
(* options, loads the state, and either leaves through exit(1) or runs to  *)
(* its save.  Audio generation after save_daily is outside the model.      *)

\* parse_time(t) of the schedule command: h, m = map(int, t.split(':')) and
\* h * 60 + m; ok = FALSE when it raises ValueError
ParseTime(t) ==
    LET c == CASE t = "06:00" -> <<48, 54, 58, 48, 48>>
               [] t = "06:45" -> <<48, 54, 58, 52, 53>>
               [] t = "08:00" -> <<48, 56, 58, 48, 48>>
               [] t = "22:00" -> <<50, 50, 58, 48, 48>>
               [] t = "22:45" -> <<50, 50, 58, 52, 53>>
               [] t = "23:30" -> <<50, 51, 58, 51, 48>>
               [] t = "9:5"   -> <<57, 58, 53>>
               [] t = "noon"  -> <<110, 111, 111, 110>>
               [] OTHER -> <<>>
        colons == {i \in DOMAIN c : c[i] = 58}
        at == CHOOSE i \in colons : TRUE
        IsInt(part) == part # <<>> /\ \A i \in DOMAIN part : IsDigit(part[i])
        RECURSIVE IntOf(_)
        IntOf(part) == IF part = <<>> THEN 0
                     ELSE 10 * IntOf(SubSeq(part, 1, Len(part) - 1))
                              + part[Len(part)] - 48
        h == SubSeq(c, 1, at - 1)
        m == SubSeq(c, at + 1, Len(c))
    IN  IF Cardinality(colons) = 1 /\ IsInt(h) /\ IsInt(m)
        THEN [ok |-> TRUE, minutes |-> IntOf(h) * 60 + IntOf(m)]
        ELSE [ok |-> FALSE, minutes |-> 0]

\* update_schedule that stores the keypoint time as the quiz time too
UpdateSchedule_OneTime(state, keypoint_time, quiz_time, timezone) ==
    LET s0 == IF "schedule" \in DOMAIN state.o THEN state
              ELSE Obj(WithMember(state.o, "schedule", Obj(NoMembers)))
        c0 == s0.o["schedule"].o
        c1 == IF keypoint_time # ""
              THEN WithMember(c0, "keypoint_time", Str(keypoint_time)) ELSE c0
        c2 == IF quiz_time # ""
              THEN WithMember(c1, "quiz_time", Str(keypoint_time)) ELSE c1
    IN  Obj(WithMember(s0.o, "schedule", Obj(c2)))

\* update_schedule(state, keypoint_time, quiz_time, timezone); "" stands
\* for an argument left at None
UpdateSchedule(state, keypoint_time, quiz_time, timezone) ==
    LET s0 == IF "schedule" \in DOMAIN state.o THEN state
              ELSE Obj(WithMember(state.o, "schedule", Obj(NoMembers)))
        c0 == s0.o["schedule"].o
        c1 == IF keypoint_time # ""
              THEN WithMember(c0, "keypoint_time", Str(keypoint_time)) ELSE c0
        c2 == IF quiz_time # ""
              THEN WithMember(c1, "quiz_time", Str(quiz_time)) ELSE c1
        c3 == IF timezone # ""
              THEN WithMember(c2, "timezone", Str(timezone)) ELSE c2
    IN  Obj(WithMember(s0.o, "schedule", Obj(c3)))

\* save_state(state) that runs to its end: the dump goes to the temporary
\* file, which is renamed onto the state file
SaveState(files, state) ==
    Rename([files EXCEPT ![TempFile] = File(DumpJson(state))])

\* a command that calls save_state whatever its checks said
Persisted_AlsoWhenRejected(outcome, files, state) == SaveState(files, state)

\* What a command leaves in the state directory: sm.save_state(state) is
\* the last statement of its branch, reached only when no exit(1) and no
\* exception came before it.
Persisted(outcome, files, state) ==
    IF outcome = "updated" THEN SaveState(files, state) ELSE files

\* config [--cefr X] [--style Y] [--oral-ratio N]
Config ==
    /\ cli.count < MaxCommands
    /\ \E state \in {LoadState(fs[StateFile], TRUE).document} :
       \E args \in { [cefr |-> "", style |-> "", oral_ratio |-> <<>>],
                     [cefr |-> "C1", style |-> "", oral_ratio |-> <<>>],
                     [cefr |-> "", style |-> "casual", oral_ratio |-> <<0>>],
                     [cefr |-> "X9", style |-> "casual", oral_ratio |-> <<55>>],
                     [cefr |-> "C1", style |-> "loud", oral_ratio |-> <<55>>],
                     [cefr |-> "C1", style |-> "casual", oral_ratio |-> <<101>>],
                     [cefr |-> "", style |-> "", oral_ratio |-> <<-5>>] } :
          LET given == args.cefr # "" \/ args.style # "" \/ args.oral_ratio # <<>>
              cefr_ok == args.cefr \in {"A1", "A2", "B1", "B2", "C1", "C2"}
              style_ok == args.style \in {"humorous", "rigorous", "casual",
                                          "professional"}
              ratio == args.oral_ratio[1]
              ratio_ok == 0 <= ratio /\ ratio <= 100
              literal == CASE ratio = 0 -> "0.0"
                           [] ratio = 55 -> "0.55"
                           [] OTHER -> "1.0"
              s1 == IF args.cefr # ""
                    THEN UpdatePreferences(state, args.cefr, "", "", NoDoc)
                    ELSE state
              s2 == IF args.style # ""
                    THEN UpdatePreferences(s1, "", args.style, "", NoDoc)
                    ELSE s1
              s3 == IF args.oral_ratio # <<>>
                    THEN UpdatePreferences(s2, "", "", literal, NoDoc)
                    ELSE s2
              reached == IF ~given THEN [outcome |-> "shown", state |-> state]
                         ELSE IF args.cefr # "" /\ ~cefr_ok
                         THEN [outcome |-> "rejected", state |-> state]
                         ELSE IF args.style # "" /\ ~style_ok
                         THEN [outcome |-> "rejected", state |-> s1]
                         ELSE IF args.oral_ratio # <<>> /\ ~ratio_ok
                         THEN [outcome |-> "rejected", state |-> s2]
                         ELSE [outcome |-> "updated", state |-> s3]
          IN  /\ fs' = Persisted(reached.outcome, fs, reached.state)
              /\ cli' = [command |-> "config", count |-> cli.count + 1,
                         outcome |-> reached.outcome,
                         exit |-> IF reached.outcome = "rejected" THEN 1 ELSE 0,
                         partial |-> reached.state # state,
                         before |-> fs, before_daily |-> daily]
    /\ UNCHANGED <<notebook_vars, query, result, invocation_vars,
                   user, history, op, daily, procs>>

\* schedule [--keypoint-time HH:MM] [--quiz-time HH:MM]; a ValueError of
\* parse_time is not caught, and the interpreter exits with status 1
Schedule ==
    /\ cli.count < MaxCommands
    /\ \E state \in {LoadState(fs[StateFile], TRUE).document} :
       \E args \in { [keypoint_time |-> "", quiz_time |-> ""],
                     [keypoint_time |-> "22:00", quiz_time |-> "23:30"],
                     [keypoint_time |-> "9:5", quiz_time |-> "22:00"],
                     [keypoint_time |-> "", quiz_time |-> "08:00"],
                     [keypoint_time |-> "22:00", quiz_time |-> ""],
                     [keypoint_time |-> "23:30", quiz_time |-> ""],
                     [keypoint_time |-> "22:00", quiz_time |-> "08:00"],
                     [keypoint_time |-> "08:00", quiz_time |-> "08:00"],
                     [keypoint_time |-> "06:00", quiz_time |-> "noon"] } :
          LET schedule == IF "schedule" \in DOMAIN state.o
                          THEN state.o["schedule"].o ELSE NoMembers
              current_keypoint == IF "keypoint_time" \in DOMAIN schedule
                                  THEN schedule["keypoint_time"].s ELSE "06:45"
              current_quiz == IF "quiz_time" \in DOMAIN schedule
                              THEN schedule["quiz_time"].s ELSE "22:45"
              new_keypoint == IF args.keypoint_time # ""
                              THEN args.keypoint_time ELSE current_keypoint
              new_quiz == IF args.quiz_time # ""
                          THEN args.quiz_time ELSE current_quiz
              outcome == IF args.keypoint_time = "" /\ args.quiz_time = ""
                         THEN "shown"
                         ELSE IF ~ParseTime(new_quiz).ok
                                  \/ ~ParseTime(new_keypoint).ok
                         THEN "ValueError"
                         ELSE IF ParseTime(new_quiz).minutes
                                     <= ParseTime(new_keypoint).minutes
                         THEN "rejected"
                         ELSE "updated"
              new == UpdateSchedule(state, new_keypoint, new_quiz, "")
          IN  /\ fs' = Persisted(outcome, fs, new)
              /\ cli' = [command |-> "schedule", count |-> cli.count + 1,
                         outcome |-> outcome,
                         exit |-> IF outcome \in {"rejected", "ValueError"}
                                  THEN 1 ELSE 0,
                         partial |-> args.keypoint_time = ""
                                         \/ args.quiz_time = "",
                         before |-> fs, before_daily |-> daily]
    /\ UNCHANGED <<notebook_vars, query, result, invocation_vars,
                   user, history, op, daily, procs>>

\* save_daily --content-type T --content JSON [--date D]; the content is
\* the text of the option, the file is daily/<date>/<T>.json
SaveDaily ==
    /\ cli.count < MaxCommands
    /\ \E args \in { [content_type |-> "", content |-> DumpJson(StoredEntry),
                      date |-> <<>>],
                     [content_type |-> "quiz", content |-> <<>>, date |-> <<>>],
                     [content_type |-> "quiz",
                      content |-> SubSeq(DumpJson(StoredEntry), 1, 4),
                      date |-> IsoFormat(StartDay - 1)],
                     [content_type |-> "quiz", content |-> DumpJson(StoredEntry),
                      date |-> NoSuchDay],
                     [content_type |-> "quiz", content |-> DumpJson(StoredEntry),
                      date |-> <<>>],
                     [content_type |-> "quiz", content |-> DumpJson(Arr(<<>>)),
                      date |-> IsoFormat(StartDay - 1)] } :
          LET content == ParseJson(args.content)
              target_date == IF args.date = <<>> THEN today
                             ELSE StrpDate(args.date)
              outcome == IF args.content_type = "" \/ args.content = <<>>
                         THEN "rejected"
                         ELSE IF ~content.ok THEN "rejected"
                         ELSE IF target_date = 0 THEN "rejected"
                         ELSE "updated"
              file == [date |-> IsoFormat(target_date),
                       content_type |-> args.content_type,
                       text |-> DumpJson(content.val)]
          IN  /\ daily' = IF outcome = "updated"
                          THEN {f \in daily : f.date # file.date
                                    \/ f.content_type # file.content_type}
                                   \cup {file}
                          ELSE daily
              /\ cli' = [command |-> "save_daily", count |-> cli.count + 1,
                         outcome |-> outcome,
                         exit |-> IF outcome = "rejected" THEN 1 ELSE 0,
                         partial |-> FALSE,
                         before |-> fs, before_daily |-> daily]
    /\ UNCHANGED <<notebook_vars, query, result, store_vars,
                   user, history, op, procs>>

\* record_view [--date D]: the date is parsed before the state is loaded
RecordViewed ==
    /\ cli.count < MaxCommands
    /\ \E state \in {LoadState(fs[StateFile], TRUE).document} :
       \E date \in {<<>>, IsoFormat(StartDay - 1), NoSuchDay} :
          LET target_date == IF date = <<>> THEN today ELSE StrpDate(date)
              outcome == IF target_date = 0 THEN "rejected" ELSE "updated"
              status == IF "completion_status" \in DOMAIN state.o
                        THEN state.o["completion_status"].o ELSE NoMembers
              views == IF "keypoint_view_history" \in DOMAIN status
                       THEN status["keypoint_view_history"].a ELSE <<>>
              view == Obj([x \in {"date", "viewed_at"} |->
                          IF x = "viewed_at" THEN Str("now")
                          ELSE IF target_date = StartDay THEN Str("2026-03-01")
                          ELSE Str("2026-02-28")])
              all == Append(views, view)
              new == Obj(WithMember(state.o, "completion_status",
                         Obj(WithMember(status, "keypoint_view_history",
                             Arr(PySlice(all, -KEPT_VIEWS, Len(all)))))))
          IN  /\ fs' = Persisted(outcome, fs, new)
              /\ cli' = [command |-> "record_view", count |-> cli.count + 1,
                         outcome |-> outcome,
                         exit |-> IF outcome = "rejected" THEN 1 ELSE 0,
                         partial |-> FALSE,
                         before |-> fs, before_daily |-> daily]
    /\ UNCHANGED <<notebook_vars, query, result, invocation_vars,
                   user, history, op, daily, procs>>

\* a state directory without a state file (the defaults apply) or with the
\* document of a user who has studied; no daily content yet
InitCli ==
    /\ NoNotebook
    /\ \E file \in {NoFile, File(DumpJson(ChangedState))} :
          fs = [path \in Paths |-> IF path = StateFile THEN file ELSE NoFile]
    /\ document = NoDoc
    /\ pc = "idle"
    /\ saving = NoDoc
    /\ prev_file = NoFile
    /\ store_last = "none"
    /\ store_raised = "none"
    /\ fault = "none"
    /\ rt_doc = NoDoc
    /\ rt_saved = FALSE
    /\ rt_prev = NoDoc
    /\ store_calls = NoStoreCalls
    /\ user = [streak |-> 0, streak_freeze |-> 0, last_study_date |-> <<>>,
               last_freeze_used |-> <<>>]
    /\ history = <<>>
    /\ op = [name |-> "none"]
    /\ cli = [command |-> "none", count |-> 0, outcome |-> "none", exit |-> 0,
              partial |-> FALSE, before |-> fs, before_daily |-> {}]
    /\ daily = {}
    /\ procs = <<>>

NextCli ==
    \/ Config
    \/ Schedule
    \/ SaveDaily
    \/ RecordViewed

SpecCli == InitCli /\ [][NextCli]_vars

StoredSchedule == LoadState(fs[StateFile], TRUE).document.o["schedule"].o

-----------------------------------------------------------------------------
(* Two invocations on one state directory.  Each loads the state, changes  *)
(* it and saves it; the steps of the two interleave.  Both name the same   *)
(* temporary file, state.tmp.  A file that is open stays the same file     *)
(* when another path comes to name it.                                     *)

Invocations == {1, 2}

\* The text of a file after a write of chunk at an offset of its own: what
\* lies under the chunk is replaced, what lies beyond stays, and a gap
\* before the chunk reads as NUL bytes.
WriteAt(text, offset, chunk) ==
    LET n == IF Len(text) > offset + Len(chunk) THEN Len(text)
             ELSE offset + Len(chunk)
    IN  [i \in 1..n |->
            IF i > offset /\ i <= offset + Len(chunk) THEN chunk[i - offset]
            ELSE IF i <= Len(text) THEN text[i]
            ELSE Tok("nul", "")]

\* state = sm.load_state(), and the change that this invocation makes
RaceLoad(p) ==
    /\ procs[p].pc = "start"
    /\ \E state \in {LoadState(fs[StateFile], TRUE).document} :
          procs' = [procs EXCEPT ![p].pc = "open",
                                 ![p].doc =
                                     IF p = 1
                                     THEN UpdatePreferences(state, "C1", "", "",
                                                            NoDoc)
                                     ELSE UpdateOnboardingStep(state, 6)]
    /\ UNCHANGED <<notebook_vars, query, result, store_vars,
                   user, history, op, cli, daily>>

\* save_state: open(temp_file, 'w') creates the file or truncates the one
\* that is there, which another invocation may be writing
RaceOpen(p) ==
    /\ procs[p].pc = "open"
    /\ fs' = [fs EXCEPT ![TempFile] = File(<<>>)]
    /\ procs' = [procs EXCEPT ![p].pc = "write", ![p].fd = TempFile,
                              ![p].offset = 0]
    /\ UNCHANGED <<notebook_vars, query, result, invocation_vars,
                   user, history, op, cli, daily>>

\* json.dump: a full buffer is written at this invocation's offset
RaceWrite(p) ==
    /\ procs[p].pc = "write"
    /\ LET text == DumpJson(procs[p].doc)
           offset == procs[p].offset
           path == procs[p].fd
       IN  /\ Len(text) - offset >= BufferTokens
           /\ fs' = IF path = "unlinked" THEN fs
                    ELSE [fs EXCEPT ![path] =
                             File(WriteAt(fs[path].text, offset,
                                          SubSeq(text, offset + 1,
                                                 offset + BufferTokens)))]
           /\ procs' = [procs EXCEPT ![p].offset = offset + BufferTokens]
    /\ UNCHANGED <<notebook_vars, query, result, invocation_vars,
                   user, history, op, cli, daily>>

\* json.dump returns and the with block closes the file: the rest of the
\* buffer is written
RaceClose(p) ==
    /\ procs[p].pc = "write"
    /\ LET text == DumpJson(procs[p].doc)
           offset == procs[p].offset
           path == procs[p].fd
       IN  /\ Len(text) - offset < BufferTokens
           /\ fs' = IF path = "unlinked" THEN fs
                    ELSE [fs EXCEPT ![path] =
                             File(WriteAt(fs[path].text, offset,
                                          SubSeq(text, offset + 1, Len(text))))]
           /\ procs' = [procs EXCEPT ![p].pc = "rename", ![p].offset = Len(text)]
    /\ UNCHANGED <<notebook_vars, query, result, invocation_vars,
                   user, history, op, cli, daily>>

\* temp_file.rename(self.state_file): the file that state.tmp names becomes
\* the state file, also for an invocation that still has it open.  Without
\* a state.tmp the rename raises FileNotFoundError, an IOError: the except
\* branch prints, finds no temporary file to remove, and re-raises.
RaceRename(p) ==
    /\ procs[p].pc = "rename"
    /\ IF fs[TempFile].exists
       THEN /\ fs' = Rename(fs)
            /\ procs' = [q \in Invocations |->
                  IF q = p THEN [procs[q] EXCEPT !.pc = "done"]
                  ELSE IF procs[q].pc = "write" /\ procs[q].fd = TempFile
                  THEN [procs[q] EXCEPT !.fd = StateFile]
                  ELSE IF procs[q].pc = "write" /\ procs[q].fd = StateFile
                  THEN [procs[q] EXCEPT !.fd = "unlinked"]
                  ELSE procs[q]]
       ELSE /\ fs' = fs
            /\ procs' = [procs EXCEPT ![p].pc = "failed",
                                      ![p].raised = "FileNotFoundError"]
    /\ UNCHANGED <<notebook_vars, query, result, invocation_vars,
                   user, history, op, cli, daily>>

\* a state directory without a state file or with a user's document, no
\* temporary file, and two invocations about to start; prev_file is the
\* state file before them
InitRace ==
    /\ NoNotebook
    /\ \E file \in {NoFile, File(DumpJson(ChangedState))} :
          /\ fs = [path \in Paths |-> IF path = StateFile THEN file ELSE NoFile]
          /\ prev_file = file
    /\ document = NoDoc
    /\ pc = "idle"
    /\ saving = NoDoc
    /\ store_last = "none"
    /\ store_raised = "none"
    /\ fault = "none"
    /\ rt_doc = NoDoc
    /\ rt_saved = FALSE
    /\ rt_prev = NoDoc
    /\ store_calls = NoStoreCalls
    /\ user = [streak |-> 0, streak_freeze |-> 0, last_study_date |-> <<>>,
               last_freeze_used |-> <<>>]
    /\ history = <<>>
    /\ op = [name |-> "none"]
    /\ cli = [command |-> "none"]
    /\ daily = {}
    /\ procs = [p \in Invocations |->
                   [pc |-> "start", doc |-> NoDoc, offset |-> 0,
                    fd |-> "none", raised |-> "none"]]

NextRace ==
    \/ \E p \in Invocations : RaceLoad(p)
    \/ \E p \in Invocations : RaceOpen(p)
    \/ \E p \in Invocations : RaceWrite(p)
    \/ \E p \in Invocations : RaceClose(p)
    \/ \E p \in Invocations : RaceRename(p)

SpecRace == InitRace /\ [][NextRace]_vars

\* C22: when two invocations run load_state, a change and save_state
\* against the same directory, both save_state calls return without error,
\* and at every moment the state file is the prior document or the complete
\* document written by one of the two, never a partial or mixed file.
C22_LastWriterWins ==
    /\ \A p \in Invocations : procs[p].pc # "failed"
    /\ \/ fs[StateFile] = prev_file
       \/ \E p \in Invocations :
             /\ procs[p].doc # NoDoc
             /\ fs[StateFile] = File(DumpJson(procs[p].doc))

====
